---- MODULE Spec2Model ----
(***************************************************************************)
(* A model of the SAP session core of sapient-mcp:                         *)
(*   src/src/robosapiens_mcp/session.py   SAPSessionManager, SAPError,     *)
(*                                        _extract_hint                    *)
(*   src/src/robosapiens_mcp/server.py    the tool handlers, _run, _err    *)
(*   src/src/robosapiens_mcp/__main__.py  main, _auto_connect              *)
(*   src/src/sapient_mcp/config.py        RoboSAPiensMCPConfig             *)
(*                                                                         *)
(* Python strings are TLA+ strings; the string functions the code uses     *)
(* (lower, replace, in, f-strings) are computed character by character.    *)
(* The RoboSAPiens library is external: each of its calls is an outcome    *)
(* the environment chooses (a returned value or a raised exception).       *)
(* The texts of the code are kept, with the arrow written -> and the long  *)
(* dash written --.                                                        *)
(***************************************************************************)
EXTENDS Naturals, Integers, Sequences, FiniteSets, TLC

VARIABLES
    singleton,          \* SAPSessionManager._singleton: NoManager or the manager's id
    output_dir,         \* the manager's _output_dir
    lib,                \* the manager's _lib: NoLib or the id of a library handle
    state,              \* the manager's _state
    server_description, \* the manager's _server_description
    script_lines,       \* the manager's _script_lines
    config,             \* the RoboSAPiensMCPConfig the server was built with
    last,               \* the last completed call: its inputs, the session before it, its outcome
    n_managers,         \* how many SAPSessionManager objects were constructed
    n_libs,             \* how many RoboSAPiens handles were constructed
    cls_lock,           \* SAPSessionManager._lock: the thread holding it, or 0
    script_lock,        \* the manager's _script_lock: the thread holding it, or 0
    inflight,           \* the threads inside a library operation
    pc,                 \* per thread: the statement it is at
    loc                 \* per thread: its local variables

vars == <<singleton, output_dir, lib, state, server_description, script_lines,
          config, last, n_managers, n_libs, cls_lock, script_lock, inflight, pc, loc>>

\* Python's None, where the other values are strings.
None == "<None>"

\* self._lib = None: the handle ids are 1, 2, ...
NoLib == 0

\* cls._singleton = NoManager: the manager ids are 1, 2, ...
NoManager == 0

(***************************************************************************)
(* String functions                                                        *)
(***************************************************************************)
UpperChars == "ABCDEFGHIJKLMNOPQRSTUVWXYZ"
LowerChars == "abcdefghijklmnopqrstuvwxyz"

CharAt(s, i) == SubSeq(s, i, i)

\* The lower-case letter of each upper-case ASCII letter.
UpperToLower ==
    [c \in {CharAt(UpperChars, i) : i \in 1..Len(UpperChars)} |->
        CharAt(LowerChars, CHOOSE i \in 1..Len(UpperChars) : CharAt(UpperChars, i) = c)]

\* str.lower() on one character (ASCII letters; every other character is kept).
LowerChar(c) == IF c \in DOMAIN UpperToLower THEN UpperToLower[c] ELSE c

\* str.lower()
RECURSIVE lower(_)
lower(s) == IF Len(s) = 0 THEN "" ELSE LowerChar(CharAt(s, 1)) \o lower(Tail(s))

\* str.replace(" ", "_")
RECURSIVE replace_space(_)
replace_space(s) ==
    IF Len(s) = 0 THEN ""
    ELSE (IF CharAt(s, 1) = " " THEN "_" ELSE CharAt(s, 1)) \o replace_space(Tail(s))

\* Python's  pat in s  on strings.
contains(pat, s) ==
    \E i \in 1..(Len(s) + 1) :
        /\ i + Len(pat) - 1 <= Len(s)
        /\ SubSeq(s, i, i + Len(pat) - 1) = pat

\* keyword.lower().replace(" ", "_")
method_name_of(keyword) == replace_space(lower(keyword))

(***************************************************************************)
(* _extract_hint                                                           *)
(***************************************************************************)
HintNotFound ==
    "Element not found. Check: (1) spelling of the label, "
    \o "(2) the correct tab is active, "
    \o "(3) call sap_get_window_title to confirm you are on the right screen."
HintScripting ==
    "SAP GUI scripting is not enabled. "
    \o "Enable it in SAP Logon -> Customize Local Layout (Alt+F12) -> Options -> Scripting, "
    \o "AND ask BASIS to set sapgui/user_scripting=TRUE via RZ11."
HintConnection ==
    "Connection failed. Check: (1) SAP Logon is open, "
    \o "(2) the server description matches exactly what appears in SAP Logon list, "
    \o "(3) network connectivity to SAP."
HintLogin == "Login failed. Verify credentials. Check for password expiry or account lock."

\* A plausible slip: the credential rule is tried before the not-found rule.
extract_hint_login_first(error_msg) ==
    LET msg == lower(error_msg) IN
    IF contains("password", msg) \/ contains("login", msg) THEN HintLogin
    ELSE IF contains("not found", msg) THEN HintNotFound
    ELSE IF contains("scripting", msg) THEN HintScripting
    ELSE IF contains("connection", msg) \/ contains("server", msg) THEN HintConnection
    ELSE ""

extract_hint(error_msg) ==
    LET msg == lower(error_msg) IN
    IF contains("not found", msg) THEN HintNotFound
    ELSE IF contains("scripting", msg) THEN HintScripting
    ELSE IF contains("connection", msg) \/ contains("server", msg) THEN HintConnection
    ELSE IF contains("password", msg) \/ contains("login", msg) THEN HintLogin
    ELSE ""

(***************************************************************************)
(* SessionState, SAPError                                                  *)
(***************************************************************************)
SessionState == {"DISCONNECTED", "SAP_OPEN", "CONNECTED", "LOGGED_IN"}

\* SAPError(message, hint="", keyword=""); str(exc) is its message.
SAPError(message, hint, keyword) ==
    [type |-> "SAPError", message |-> message, hint |-> hint, keyword |-> keyword]

\* Any other exception class: it has no hint and no keyword.
OtherError(type, message) ==
    [type |-> type, message |-> message, hint |-> "", keyword |-> ""]

\* No exception.
NoExc == [type |-> "", message |-> "", hint |-> "", keyword |-> ""]

(***************************************************************************)
(* The RoboSAPiens library (external): what a handle exposes to getattr    *)
(* and what the environment lets a call do.                                *)
(***************************************************************************)
\* The keyword methods the code dispatches to.
LibMethods ==
    {"open_sap", "connect_to_server", "connect_to_running_sap", "close_sap",
     "get_window_title", "execute_transaction", "activate_tab", "select_menu_item",
     "send_sap_keys", "fill_text_field", "clear_text_field", "set_checkbox",
     "unset_checkbox", "select_radio_button", "push_button", "highlight_button",
     "read_text_field", "read_text", "read_status_bar", "count_table_rows",
     "select_table_row", "read_table_cell", "fill_cell", "double_click_cell",
     "scroll_table", "save_screenshot"}

\* Attributes every Python object has and that are no keyword: a callable one
\* (object.__setattr__) and one that is data.
LibCallableAttrs == {"__setattr__"}
LibDataAttrs == {"__dict__"}

\* getattr(lib, method_name, None): the kind of attribute found, or None.
getattr_lib(method_name) ==
    IF method_name \in LibMethods THEN "method"
    ELSE IF method_name \in LibCallableAttrs THEN "builtin"
    ELSE IF method_name \in LibDataAttrs THEN "data"
    ELSE None

\* What the environment lets one library call do: return a value or raise.
Returned(value) == [raised |-> FALSE, value |-> value, message |-> ""]
Raised(message) == [raised |-> TRUE, value |-> None, message |-> message]

\* What importing and constructing RoboSAPiens may do.
CreateOutcomes == {"ok", "ImportError", "OSError"}

\* _get_lib, with the outcome c of the import and the construction should they run.
\* Only an ImportError is caught; built counts the handles constructed.
get_lib(lib0, next_id, c) ==
    IF lib0 # NoLib
    THEN [lib |-> lib0, built |-> 0, raised |-> FALSE, exc |-> NoExc]
    ELSE IF c = "ok"
    THEN [lib |-> next_id, built |-> 1, raised |-> FALSE, exc |-> NoExc]
    ELSE IF c = "ImportError"
    THEN [lib |-> NoLib, built |-> 0, raised |-> TRUE,
          exc |-> SAPError("RoboSAPiens library not found",
                           "Run: pip install robotframework-robosapiens", "import")]
    ELSE [lib |-> NoLib, built |-> 0, raised |-> TRUE,
          exc |-> OtherError(c, "cannot start RoboSAPiens")]

\* method(*args) for the attribute found: a keyword method does what the
\* environment chooses (o); __setattr__(name, value) returns None; data is
\* not callable.
call_attr(kind, o) ==
    IF kind = "method" THEN o
    ELSE IF kind = "builtin" THEN Returned(None)
    ELSE Raised("'dict' object is not callable")

\* A plausible slip: the error is raised with the normalized name as its keyword.
execute_keyword_normalized(lib0, next_id, keyword, args, c, o) ==
    LET g == get_lib(lib0, next_id, c)
        method_name == method_name_of(keyword)
        method == getattr_lib(method_name)
        r == call_attr(method, o)
        called == IF method = "method"
                  THEN <<[method |-> method_name, args |-> args]>> ELSE <<>>
    IN  IF g.raised
        THEN [lib |-> g.lib, built |-> g.built, raised |-> TRUE, exc |-> g.exc,
              value |-> None, calls |-> <<>>]
        ELSE IF method = None
        THEN [lib |-> g.lib, built |-> g.built, raised |-> TRUE,
              exc |-> SAPError("Unknown RoboSAPiens keyword: '" \o keyword \o "'",
                               "No method '" \o method_name \o "' on RoboSAPiens library.",
                               method_name),
              value |-> None, calls |-> <<>>]
        ELSE IF r.raised
        THEN [lib |-> g.lib, built |-> g.built, raised |-> TRUE,
              exc |-> SAPError(r.message, extract_hint(r.message), method_name),
              value |-> None, calls |-> called]
        ELSE [lib |-> g.lib, built |-> g.built, raised |-> FALSE, exc |-> NoExc,
              value |-> r.value, calls |-> called]

\* SAPSessionManager.execute(keyword, *args) on a manager whose _lib is lib0:
\* the new _lib, the exception raised or the value returned, and the library
\* operations invoked (calls).
execute(lib0, next_id, keyword, args, c, o) ==
    LET g == get_lib(lib0, next_id, c)
        method_name == method_name_of(keyword)
        method == getattr_lib(method_name)
        r == call_attr(method, o)
        called == IF method = "method"
                  THEN <<[method |-> method_name, args |-> args]>> ELSE <<>>
    IN  IF g.raised
        THEN [lib |-> g.lib, built |-> g.built, raised |-> TRUE, exc |-> g.exc,
              value |-> None, calls |-> <<>>]
        ELSE IF method = None
        THEN [lib |-> g.lib, built |-> g.built, raised |-> TRUE,
              exc |-> SAPError("Unknown RoboSAPiens keyword: '" \o keyword \o "'",
                               "No method '" \o method_name \o "' on RoboSAPiens library.",
                               keyword),
              value |-> None, calls |-> <<>>]
        ELSE IF r.raised
        THEN [lib |-> g.lib, built |-> g.built, raised |-> TRUE,
              exc |-> SAPError(r.message, extract_hint(r.message), keyword),
              value |-> None, calls |-> called]
        ELSE [lib |-> g.lib, built |-> g.built, raised |-> FALSE, exc |-> NoExc,
              value |-> r.value, calls |-> called]

\* A plausible slip: LOGGED_IN is forgotten.
is_connected_only(st) == st = "CONNECTED"

is_connected(st) == st \in {"CONNECTED", "LOGGED_IN"}

is_logged_in(st) == st = "LOGGED_IN"

\* require_connected(): the exception it raises, or NoExc.
require_connected(st) ==
    IF ~is_connected(st)
    THEN SAPError("No active SAP connection",
                  "Call sap_open -> sap_connect_to_server (or sap_connect_to_running) first.",
                  "")
    ELSE NoExc

\* require_logged_in(): the exception it raises, or NoExc.
require_logged_in(st) ==
    IF ~is_logged_in(st)
    THEN SAPError("Not logged in to SAP",
                  "Complete login with sap_fill_text_field / sap_push_button, "
                  \o "then the session auto-detects login.",
                  "")
    ELSE NoExc

(***************************************************************************)
(* The outcome of an operation of the manager or of a tool handler:        *)
(*   s        the manager's fields after it                                *)
(*   raised   whether an exception left it, and exc, that exception        *)
(*   value    what it returned                                             *)
(*   calls    the library operations it invoked, in order                  *)
(*   shots    what each take_screenshot it made returned, in order         *)
(*   handled  the SAPError a handler caught and reported, attached the     *)
(*            screenshot it passed to _err                                 *)
(***************************************************************************)
Outcome(s, raised, exc, value, calls, shots, handled, attached) ==
    [s |-> s, raised |-> raised, exc |-> exc, value |-> value, calls |-> calls,
     shots |-> shots, handled |-> handled, attached |-> attached]

Returns(s, value, calls, shots) == Outcome(s, FALSE, NoExc, value, calls, shots, NoExc, None)

Raises(s, exc, calls, shots) == Outcome(s, TRUE, exc, None, calls, shots, NoExc, None)

\* The outcome of execute, e, on the manager fields s.
executed(s, e) ==
    LET s1 == [s EXCEPT !.lib = e.lib, !.n_libs = @ + e.built]
    IN  IF e.raised THEN Raises(s1, e.exc, e.calls, <<>>)
        ELSE Returns(s1, e.value, e.calls, <<>>)

\* session.execute(keyword, *args) on the manager fields s.
s_execute(s, keyword, args, c, o) ==
    executed(s, execute(s.lib, s.n_libs + 1, keyword, args, c, o))

\* sep.join(xs)
RECURSIVE join(_, _)
join(sep, xs) ==
    IF Len(xs) = 0 THEN ""
    ELSE IF Len(xs) = 1 THEN xs[1]
    ELSE xs[1] \o sep \o join(sep, Tail(xs))

\* The line record() appends for a keyword and its arguments.
script_line(keyword, args) ==
    LET arg_str == join("    ", args) IN
    IF arg_str # "" THEN "    " \o keyword \o "    " \o arg_str
    ELSE "    " \o keyword

\* A plausible slip: the new line is put before the lines recorded earlier.
s_record_first(s, keyword, args) ==
    [s EXCEPT !.script_lines = <<script_line(keyword, args)>> \o @]

\* session.record(keyword, *args)
s_record(s, keyword, args) ==
    [s EXCEPT !.script_lines = Append(@, script_line(keyword, args))]

\* base64.b64encode(bytes).decode(): bytes are numbers in 0..255.
B64Alphabet == "ABCDEFGHIJKLMNOPQRSTUVWXYZabcdefghijklmnopqrstuvwxyz0123456789+/"
B64Char(n) == CharAt(B64Alphabet, n + 1)

RECURSIVE b64encode(_)
b64encode(bytes) ==
    IF Len(bytes) = 0 THEN ""
    ELSE IF Len(bytes) = 1
    THEN B64Char(bytes[1] \div 4) \o B64Char((bytes[1] % 4) * 16) \o "=="
    ELSE IF Len(bytes) = 2
    THEN B64Char(bytes[1] \div 4)
         \o B64Char((bytes[1] % 4) * 16 + (bytes[2] \div 16))
         \o B64Char((bytes[2] % 16) * 4) \o "="
    ELSE B64Char(bytes[1] \div 4)
         \o B64Char((bytes[1] % 4) * 16 + (bytes[2] \div 16))
         \o B64Char((bytes[2] % 16) * 4 + (bytes[3] \div 64))
         \o B64Char(bytes[3] % 64)
         \o b64encode(SubSeq(bytes, 4, Len(bytes)))

\* datetime.now().strftime("%Y%m%d_%H%M%S") at the time of a screenshot.
Timestamp == "20240101_120000"

\* The bytes of the file the library writes: the PNG signature.
PngBytes == <<137, 80, 78, 71, 13, 10, 26, 10>>

\* What take_screenshot returns after the save e: the file's bytes in base64,
\* or None when the save or the read (rd) failed.
b64_of_file(e, rd) == IF e.raised \/ ~rd THEN None ELSE b64encode(PngBytes)

\* A plausible slip: "except SAPError" in place of "except Exception".
screenshot_taken_sap_only(e, rd) ==
    IF e.raised /\ e.exc.type # "SAPError" THEN Raises(e.s, e.exc, e.calls, <<>>)
    ELSE Returns(e.s, b64_of_file(e, rd), e.calls, <<b64_of_file(e, rd)>>)

\* take_screenshot after the save e.
screenshot_taken(e, rd) ==
    Returns(e.s, b64_of_file(e, rd), e.calls, <<b64_of_file(e, rd)>>)

\* session.take_screenshot(label): rd tells whether the file can be read back.
\* Any exception, of the save or of the read, is caught.
s_take_screenshot(s, dir, label, c, o, rd) ==
    screenshot_taken(
        s_execute(s, "Save Screenshot",
                  <<dir \o "/" \o label \o "_" \o Timestamp \o ".png">>, c, o),
        rd)

\* get_snapshot after both reads: a SAPError of a read leaves its key None.
snapshot_read(s, e1, e2) ==
    IF e2.raised /\ e2.exc.type # "SAPError"
    THEN Raises(e2.s, e2.exc, e1.calls \o e2.calls, <<>>)
    ELSE Returns(e2.s,
                 [window_title |-> IF e1.raised THEN None ELSE e1.value,
                  fields |-> <<>>, buttons |-> <<>>, tabs |-> <<>>,
                  status_bar |-> IF e2.raised THEN None ELSE e2.value,
                  state |-> s.state],
                 e1.calls \o e2.calls, <<>>)

\* get_snapshot after the read of the title, e1.
snapshot_title(s, e1, c, o2) ==
    IF e1.raised /\ e1.exc.type # "SAPError"
    THEN Raises(e1.s, e1.exc, e1.calls, <<>>)
    ELSE snapshot_read(s, e1, s_execute(e1.s, "Read Status Bar", <<>>, c, o2))

\* session.get_snapshot(): the guard, then two reads, each of which tolerates
\* a SAPError (and only a SAPError).
s_get_snapshot(s, c, o1, o2) ==
    IF require_logged_in(s.state) # NoExc
    THEN Raises(s, require_logged_in(s.state), <<>>, <<>>)
    ELSE snapshot_title(s, s_execute(s, "Get Window Title", <<>>, c, o1), c, o2)

(***************************************************************************)
(* Bounds and inputs                                                       *)
(***************************************************************************)
\* How many threads call the manager at once.
NThreads == 2
Threads == 1..NThreads

\* How many lines the script buffer holds before recording stops.
MaxScript == 1

\* The output directories a create is given (as pathlib prints them).
OutputDirs == {"sap_output", "/tmp/out"}

\* The command names execute is given: keywords of the library, spelled as a
\* caller may spell them, and names that are no keyword.
ApiKeywords ==
    {"Fill Text Field", "read_status_bar", "Bogus Keyword", "Fill  Text Field",
     "__setattr__", "__dict__"}

\* The argument lists execute is given.
ApiArgs == {<<"User", "bob">>}

\* What a library operation may do.
LibOutcomes ==
    {Returned("SAP Easy Access"), Raised("Element 'User' not found"),
     Raised("COM error 0x80010105")}

\* The outcome of creating the library matters only while there is no handle.
CreateChoices(lib0) == IF lib0 = NoLib THEN CreateOutcomes ELSE {"ok"}

\* The fields of every thread while no thread is running.
NoThreads == [t \in Threads |-> "idle"]
\* The tool handler a thread is in: the tool and its argument, the statement
\* it goes on with (stage), what sap_get_session_info has read (st, sv),
\* whether the command of the tool has returned (done), the threads whose
\* command had returned when this one was dispatched (before) and the
\* SAPError _run has caught (exc).
NoFrame ==
    [tool |-> "", arg |-> None, stage |-> "", st |-> None, sv |-> None, done |-> FALSE,
     before |-> {}, exc |-> NoExc]

NoLocals ==
    [t \in Threads |->
        [op |-> "", arg |-> None, ret |-> NoManager, raised |-> FALSE, built |-> None,
         lib |-> NoLib, made |-> NoLib, exc |-> NoExc, frame |-> NoFrame]]

\* RoboSAPiensMCPConfig's defaults, as far as the handlers read them.
DefaultConfig ==
    [cap_codegen |-> FALSE, cap_screenshot |-> FALSE, cap_advanced |-> FALSE,
     screenshot_on_error |-> TRUE,
     saplogon_path |-> "C:\\Program Files (x86)\\SAP\\FrontEnd\\SAPgui\\saplogon.exe",
     sap_server |-> None, sap_client |-> None, sap_user |-> None, sap_password |-> None,
     output_dir |-> "sap_output"]

(***************************************************************************)
(* The record of a call                                                    *)
(***************************************************************************)
\* The manager's fields a call reads and writes.
Session ==
    [lib |-> lib, n_libs |-> n_libs, state |-> state,
     server_description |-> server_description, script_lines |-> script_lines]

\* The whole session as a call finds it.
Snap ==
    [singleton |-> singleton, output_dir |-> output_dir, lib |-> lib, state |-> state,
     server_description |-> server_description, script_lines |-> script_lines,
     n_managers |-> n_managers, n_libs |-> n_libs]

\* A completed call: what was asked (op, args), what the library was made to
\* do (outcomes), the session before it (pre) and its outcome r.
Call(op, args, outcomes, r) ==
    [op |-> op, args |-> args, outcomes |-> outcomes, pre |-> Snap,
     raised |-> r.raised, exc |-> r.exc, value |-> r.value, calls |-> r.calls,
     shots |-> r.shots, handled |-> r.handled, attached |-> r.attached]

\* No call is waiting for its caller.
NoCall ==
    [op |-> "", args |-> <<>>, outcomes |-> <<>>,
     pre |-> [singleton |-> NoManager, output_dir |-> None, lib |-> NoLib,
              state |-> "DISCONNECTED", server_description |-> None,
              script_lines |-> <<>>, n_managers |-> 0, n_libs |-> 0],
     raised |-> FALSE, exc |-> NoExc, value |-> None, calls |-> <<>>,
     shots |-> <<>>, handled |-> NoExc, attached |-> None]

\* The manager's fields become those of s.
Becomes(s) ==
    /\ lib' = s.lib
    /\ n_libs' = s.n_libs
    /\ state' = s.state
    /\ server_description' = s.server_description
    /\ script_lines' = s.script_lines

\* A call by one caller at a time: the threads play no part.
SeqFrame == UNCHANGED <<config, cls_lock, script_lock, inflight, pc, loc>>

\* The caller takes the outcome of the last call; the next call can start.
Respond ==
    /\ last.op # ""
    /\ last' = NoCall
    /\ UNCHANGED <<singleton, output_dir, lib, state, server_description, script_lines,
                   config, n_managers, n_libs, cls_lock, script_lock, inflight, pc, loc>>

(***************************************************************************)
(* The session manager's operations, one call each                         *)
(***************************************************************************)
\* A plausible slip: a lookup that finds no manager constructs a default one.
instance_builds_default(sing) ==
    IF sing = NoManager
    THEN [raised |-> FALSE, exc |-> NoExc, build |-> TRUE, dir |-> DefaultConfig.output_dir]
    ELSE [raised |-> FALSE, exc |-> NoExc, build |-> FALSE, dir |-> None]

\* SAPSessionManager.instance(): raises while there is no manager.
instance(sing) ==
    IF sing = NoManager
    THEN [raised |-> TRUE,
          exc |-> OtherError("RuntimeError",
                     "SAPSessionManager not initialised. Call SAPSessionManager.create() first."),
          build |-> FALSE, dir |-> None]
    ELSE [raised |-> FALSE, exc |-> NoExc, build |-> FALSE, dir |-> None]

\* SAPSessionManager.__init__(output_dir): a new manager becomes the singleton.
Construct(dir) ==
    /\ singleton' = n_managers + 1
    /\ n_managers' = n_managers + 1
    /\ output_dir' = dir
    /\ lib' = NoLib
    /\ state' = "DISCONNECTED"
    /\ server_description' = None
    /\ script_lines' = <<>>

ManagerFields == <<singleton, n_managers, output_dir, lib, state, server_description,
                   script_lines>>

\* SAPSessionManager.instance()
Instance ==
    LET r == instance(singleton) IN
    /\ last.op = ""
    /\ IF r.build THEN Construct(r.dir) ELSE UNCHANGED ManagerFields
    /\ last' = Call("instance", <<>>, <<>>,
                    IF r.raised THEN Raises(Session, r.exc, <<>>, <<>>)
                    ELSE Returns(Session, singleton', <<>>, <<>>))
    /\ UNCHANGED n_libs
    /\ SeqFrame

\* SAPSessionManager.create(output_dir), by one caller.
Create ==
    \E dir \in OutputDirs :
        /\ last.op = ""
        /\ IF singleton = NoManager THEN Construct(dir) ELSE UNCHANGED ManagerFields
        /\ last' = Call("create", <<dir>>, <<>>, Returns(Session, singleton', <<>>, <<>>))
        /\ UNCHANGED n_libs
        /\ SeqFrame

\* session.execute(keyword, *args)
Execute ==
    \E keyword \in ApiKeywords, args \in ApiArgs,
       c \in CreateChoices(lib), o \in LibOutcomes :
        LET r == s_execute(Session, keyword, args, c, o) IN
        /\ last.op = ""
        /\ singleton # NoManager
        /\ Becomes(r.s)
        /\ last' = Call("execute", <<keyword, args>>, <<c, o>>, r)
        /\ UNCHANGED <<singleton, n_managers, output_dir>>
        /\ SeqFrame

\* A plausible slip: a new connection state also forgets the server.
set_state_resets_server(s, st) ==
    [s EXCEPT !.state = st,
              !.server_description = IF st = "DISCONNECTED" THEN None ELSE @]

\* set_state(state) on the manager fields s: self._state = state.
set_state(s, st) == [s EXCEPT !.state = st]

\* session.set_state(state)
SetState ==
    \E st \in SessionState :
        /\ last.op = ""
        /\ singleton # NoManager
        /\ Becomes(set_state(Session, st))
        /\ last' = Call("set_state", <<st>>, <<>>,
                        Returns(set_state(Session, st), None, <<>>, <<>>))
        /\ UNCHANGED <<singleton, n_managers, output_dir>>
        /\ SeqFrame

\* The outcome of a guard: it raises or returns None.
Guarded(s, e) == IF e # NoExc THEN Raises(s, e, <<>>, <<>>) ELSE Returns(s, None, <<>>, <<>>)

\* session.require_connected()
RequireConnected ==
    LET r == Guarded(Session, require_connected(state)) IN
    /\ last.op = ""
    /\ singleton # NoManager
    /\ Becomes(r.s)
    /\ last' = Call("require_connected", <<>>, <<>>, r)
    /\ UNCHANGED <<singleton, n_managers, output_dir>>
    /\ SeqFrame

\* session.require_logged_in()
RequireLoggedIn ==
    LET r == Guarded(Session, require_logged_in(state)) IN
    /\ last.op = ""
    /\ singleton # NoManager
    /\ Becomes(r.s)
    /\ last' = Call("require_logged_in", <<>>, <<>>, r)
    /\ UNCHANGED <<singleton, n_managers, output_dir>>
    /\ SeqFrame

\* session.get_snapshot()
GetSnapshot ==
    \E c \in CreateChoices(lib), o1 \in LibOutcomes, o2 \in LibOutcomes :
        LET r == s_get_snapshot(Session, c, o1, o2) IN
        /\ last.op = ""
        /\ singleton # NoManager
        /\ Becomes(r.s)
        /\ last' = Call("get_snapshot", <<>>, <<c, o1, o2>>, r)
        /\ UNCHANGED <<singleton, n_managers, output_dir>>
        /\ SeqFrame

\* session.take_screenshot(label): the save does o and the file reads back
\* or not (rd).
TakeScreenshot ==
    \E label \in {"screenshot", "error"}, c \in CreateChoices(lib),
       o \in LibOutcomes, rd \in BOOLEAN :
        LET r == s_take_screenshot(Session, output_dir, label, c, o, rd) IN
        /\ last.op = ""
        /\ singleton # NoManager
        /\ Becomes(r.s)
        /\ last' = Call("take_screenshot", <<label>>, <<c, o, rd>>, r)
        /\ UNCHANGED <<singleton, n_managers, output_dir>>
        /\ SeqFrame

\* After the import of the module, before any call: no manager exists.
InitApi ==
    /\ singleton = NoManager
    /\ n_managers = 0
    /\ output_dir = None
    /\ lib = NoLib
    /\ n_libs = 0
    /\ state = "DISCONNECTED"
    /\ server_description = None
    /\ script_lines = <<>>
    /\ config = DefaultConfig
    /\ last = NoCall
    /\ cls_lock = 0
    /\ script_lock = 0
    /\ inflight = {}
    /\ pc = NoThreads
    /\ loc = NoLocals

(***************************************************************************)
(* server.py: _ok, _err, _run                                              *)
(***************************************************************************)
\* json.dumps of a string or of None (the strings used need no escaping).
json_str(v) == IF v = None THEN "null" ELSE "\"" \o v \o "\""

\* json.dumps of a bool.
json_bool(b) == IF b THEN "true" ELSE "false"

\* json.dumps({key: value}, indent=2) for one key whose value is already JSON.
json_object1(key, json_value) == "{\n  \"" \o key \o "\": " \o json_value \o "\n}"

\* _ok(msg)
ok_text(msg) == msg

\* _ok(msg, key=value): the message, then the extras as JSON.
ok_text_extra(msg, key, json_value) == msg \o "\n" \o json_object1(key, json_value)

\* _err(exc, screenshot_b64)
err_text(exc, screenshot_b64) ==
    "ERROR: " \o exc.message
    \o (IF exc.keyword # "" THEN "\nKeyword: " \o exc.keyword ELSE "")
    \o (IF exc.hint # "" THEN "\nHint: " \o exc.hint ELSE "")
    \o (IF screenshot_b64 # None /\ screenshot_b64 # ""
        THEN "\n[Screenshot captured -- see image content below]" ELSE "")

\* A handler returns the text of _ok.
Reports(s, text, calls, shots) == Returns(s, text, calls, shots)

\* A handler catches a SAPError and returns the text of _err.
ReportsError(s, exc, ss, calls, shots) ==
    Outcome(s, FALSE, NoExc, err_text(exc, ss), calls, shots, exc, ss)

\* A plausible slip: a screenshot that failed is reported in place of the
\* command's error.
run_raise_screenshot_failure(e, ss) ==
    Raises(ss.s,
           IF ss.value = None
           THEN SAPError("Screenshot capture failed", "", "Save Screenshot") ELSE e.exc,
           e.calls \o ss.calls, ss.shots)

\* _run's except clause after its screenshot ss: the SAPError is raised again
\* and the screenshot is dropped.
run_reraise(e, ss) == Raises(ss.s, e.exc, e.calls \o ss.calls, ss.shots)

\* _run after execute, e.
run_executed(cfg, dir, keyword, args, e, c, o_ss, rd) ==
    IF ~e.raised
    THEN Returns(IF cfg.cap_codegen THEN s_record(e.s, keyword, args) ELSE e.s,
                 e.value, e.calls, <<>>)
    ELSE IF e.exc.type = "SAPError" /\ cfg.screenshot_on_error
    THEN run_reraise(e, s_take_screenshot(e.s, dir, "error", c, o_ss, rd))
    ELSE Raises(e.s, e.exc, e.calls, <<>>)

\* _run(session, config, keyword, *args, record=True): on success the command
\* is recorded when codegen is on; on a SAPError a screenshot is taken when
\* screenshot_on_error is on, and the SAPError is raised again.
run(s, cfg, dir, keyword, args, c, o, o_ss, rd) ==
    run_executed(cfg, dir, keyword, args, s_execute(s, keyword, args, c, o), c, o_ss, rd)

\* A plausible slip: a SAPError is taken as the loss of the connection.
except_SAPError_disconnects(r) ==
    IF r.exc.type = "SAPError"
    THEN ReportsError([r.s EXCEPT !.state = "DISCONNECTED"], r.exc, None, r.calls, r.shots)
    ELSE r

\* A handler's "except SAPError as exc: return _err(exc)" around a call whose
\* outcome is r; any other exception leaves the handler.
except_SAPError(r) ==
    IF r.exc.type = "SAPError" THEN ReportsError(r.s, r.exc, None, r.calls, r.shots)
    ELSE r

(***************************************************************************)
(* server.py: the session tools                                            *)
(***************************************************************************)
\* saplogon_path or config.saplogon_path
open_path(cfg, saplogon_path) ==
    IF saplogon_path # None /\ saplogon_path # "" THEN saplogon_path ELSE cfg.saplogon_path

sap_open_executed(path, e) ==
    IF ~e.raised
    THEN Reports([e.s EXCEPT !.state = "SAP_OPEN"],
                 ok_text("SAP Logon opened from: " \o path), e.calls, <<>>)
    ELSE except_SAPError(e)

\* sap_open(saplogon_path)
sap_open(s, cfg, saplogon_path, c, o) ==
    sap_open_executed(open_path(cfg, saplogon_path),
                      s_execute(s, "Open SAP", <<open_path(cfg, saplogon_path)>>, c, o))

\* A session tool after execute, e: the state and the server description are
\* set and the command is recorded when codegen is on.
session_tool_executed(cfg, keyword, args, st, server, msg, e) ==
    IF ~e.raised
    THEN Reports(IF cfg.cap_codegen
                 THEN s_record([e.s EXCEPT !.state = st, !.server_description = server],
                               keyword, args)
                 ELSE [e.s EXCEPT !.state = st, !.server_description = server],
                 ok_text(msg), e.calls, <<>>)
    ELSE except_SAPError(e)

\* sap_connect_to_server(server_description)
sap_connect_to_server(s, cfg, description, c, o) ==
    session_tool_executed(cfg, "Connect To Server", <<description>>, "CONNECTED", description,
                          "Connected to SAP server: '" \o description
                          \o "'. Login screen should now be visible.",
                          s_execute(s, "Connect To Server", <<description>>, c, o))

\* A plausible slip: attaching to a running session forgets the server.
sap_connect_to_running_forgets_server(s, cfg, c, o) ==
    session_tool_executed(cfg, "Connect To Running SAP", <<>>, "LOGGED_IN",
                          None, "Attached to running SAP session.",
                          s_execute(s, "Connect To Running SAP", <<>>, c, o))

\* sap_connect_to_running(): the server description is left as it is.
sap_connect_to_running(s, cfg, c, o) ==
    session_tool_executed(cfg, "Connect To Running SAP", <<>>, "LOGGED_IN",
                          s.server_description, "Attached to running SAP session.",
                          s_execute(s, "Connect To Running SAP", <<>>, c, o))

\* sap_close()
sap_close(s, cfg, c, o) ==
    session_tool_executed(cfg, "Close SAP", <<>>, "DISCONNECTED", None, "SAP GUI closed.",
                          s_execute(s, "Close SAP", <<>>, c, o))

\* json.dumps(info, indent=2) for sap_get_session_info's dict; has_title tells
\* whether the window_title key was set.
session_info_json(st, server, has_title, window_title) ==
    "{\n  \"state\": " \o json_str(st)
    \o ",\n  \"server\": " \o json_str(server)
    \o ",\n  \"connected\": " \o json_bool(is_connected(st))
    \o ",\n  \"logged_in\": " \o json_bool(is_logged_in(st))
    \o (IF has_title THEN ",\n  \"window_title\": " \o json_str(window_title) ELSE "")
    \o "\n}"

session_info_read(s, e) ==
    IF ~e.raised
    THEN Returns(e.s, session_info_json(s.state, s.server_description, TRUE, e.value),
                 e.calls, <<>>)
    ELSE IF e.exc.type = "SAPError"
    THEN Returns(e.s, session_info_json(s.state, s.server_description, TRUE, "unavailable"),
                 e.calls, <<>>)
    ELSE e

\* A plausible slip: the title is read in every state.
sap_get_session_info_always_reads(s, cfg, c, o) ==
    session_info_read(s, s_execute(s, "Get Window Title", <<>>, c, o))

\* sap_get_session_info(): the title is read only when connected, and a
\* SAPError of that read is reported as "unavailable".
sap_get_session_info(s, cfg, c, o) ==
    IF ~is_connected(s.state)
    THEN Returns(s, session_info_json(s.state, s.server_description, FALSE, None), <<>>, <<>>)
    ELSE session_info_read(s, s_execute(s, "Get Window Title", <<>>, c, o))

window_title_read(e) ==
    IF ~e.raised
    THEN Returns(e.s, IF e.value = None \/ e.value = "" THEN "(empty title)" ELSE e.value,
                 e.calls, <<>>)
    ELSE except_SAPError(e)

\* sap_get_window_title()
sap_get_window_title(s, cfg, c, o) ==
    window_title_read(s_execute(s, "Get Window Title", <<>>, c, o))

(***************************************************************************)
(* server.py: the guarded tools                                            *)
(***************************************************************************)
\* The tools that are: require_logged_in, _run(keyword, *args), _ok(message).
SimpleTools ==
    {"sap_activate_tab", "sap_select_menu_item", "sap_send_key", "sap_clear_text_field",
     "sap_set_checkbox", "sap_unset_checkbox", "sap_select_radio_button",
     "sap_select_table_row", "sap_fill_cell", "sap_scroll_table"}

\* The keyword each of them runs.
simple_keyword(name) ==
    CASE name = "sap_activate_tab" -> "Activate Tab"
      [] name = "sap_select_menu_item" -> "Select Menu Item"
      [] name = "sap_send_key" -> "Send SAP Keys"
      [] name = "sap_clear_text_field" -> "Clear Text Field"
      [] name = "sap_set_checkbox" -> "Set Checkbox"
      [] name = "sap_unset_checkbox" -> "Unset Checkbox"
      [] name = "sap_select_radio_button" -> "Select Radio Button"
      [] name = "sap_select_table_row" -> "Select Table Row"
      [] name = "sap_fill_cell" -> "Fill Cell"
      [] name = "sap_scroll_table" -> "Scroll Table"

\* The message each of them returns for its arguments (as passed to _run).
simple_ok(name, a) ==
    CASE name = "sap_activate_tab" -> "Tab '" \o a[1] \o "' activated."
      [] name = "sap_select_menu_item" -> "Menu item selected: " \o join(" -> ", a)
      [] name = "sap_send_key" -> "Key sent: " \o a[1]
      [] name = "sap_clear_text_field" -> "Field '" \o a[1] \o "' cleared."
      [] name = "sap_set_checkbox" -> "Checkbox '" \o a[1] \o "' checked."
      [] name = "sap_unset_checkbox" -> "Checkbox '" \o a[1] \o "' unchecked."
      [] name = "sap_select_radio_button" -> "Radio button '" \o a[1] \o "' selected."
      [] name = "sap_select_table_row" -> "Table row '" \o a[1] \o "' selected."
      [] name = "sap_fill_cell" ->
            "Cell [" \o a[1] \o ", " \o a[2] \o "] filled with '" \o a[3] \o "'."
      [] name = "sap_scroll_table" ->
            "Table scrolled " \o a[1] \o " by " \o a[2] \o " row(s)."

\* A simple tool after _run, r.
simple_ran(name, a, r) ==
    IF ~r.raised THEN Reports(r.s, ok_text(simple_ok(name, a)), r.calls, r.shots)
    ELSE except_SAPError(r)

\* A plausible slip: the guard is forgotten.
simple_tool_unguarded(s, cfg, dir, name, a, c, o, o_ss, rd) ==
    simple_ran(name, a, run(s, cfg, dir, simple_keyword(name), a, c, o, o_ss, rd))

\* sap_activate_tab, sap_select_menu_item, sap_send_key, sap_clear_text_field,
\* sap_set_checkbox, sap_unset_checkbox, sap_select_radio_button,
\* sap_select_table_row, sap_fill_cell, sap_scroll_table
simple_tool(s, cfg, dir, name, a, c, o, o_ss, rd) ==
    IF require_logged_in(s.state) # NoExc
    THEN Raises(s, require_logged_in(s.state), <<>>, <<>>)
    ELSE simple_ran(name, a, run(s, cfg, dir, simple_keyword(name), a, c, o, o_ss, rd))

\* The tools that run a command and then read the window title.
TitleTools == {"sap_execute_transaction", "sap_double_click_cell"}

title_keyword(name) ==
    IF name = "sap_execute_transaction" THEN "Execute Transaction" ELSE "Double Click Cell"

title_ok(name, a) ==
    IF name = "sap_execute_transaction" THEN "Transaction '" \o a[1] \o "' executed."
    ELSE "Double-clicked cell [" \o a[1] \o ", " \o a[2] \o "]."

\* A title tool after _run, r, and the read of the title, t.
title_read(name, a, r, t) ==
    IF ~t.raised
    THEN Reports(t.s, ok_text_extra(title_ok(name, a), "window_title", json_str(t.value)),
                 r.calls \o t.calls, r.shots)
    ELSE IF t.exc.type = "SAPError"
    THEN ReportsError(t.s, t.exc, None, r.calls \o t.calls, r.shots)
    ELSE Raises(t.s, t.exc, r.calls \o t.calls, r.shots)

\* A title tool after _run, r.
title_ran(name, a, r, c, o_title) ==
    IF r.raised THEN except_SAPError(r)
    ELSE title_read(name, a, r, s_execute(r.s, "Get Window Title", <<>>, c, o_title))

\* sap_execute_transaction, sap_double_click_cell
title_tool(s, cfg, dir, name, a, c, o, o_ss, rd, o_title) ==
    IF require_logged_in(s.state) # NoExc
    THEN Raises(s, require_logged_in(s.state), <<>>, <<>>)
    ELSE title_ran(name, a, run(s, cfg, dir, title_keyword(name), a, c, o, o_ss, rd),
                   c, o_title)

\* The labels whose value is not written to the script.
PasswordLabels == {"password", "passwort", "kennwort"}

\* The value sap_fill_text_field records for a label.
record_value(label, value) == IF lower(label) \in PasswordLabels THEN "***" ELSE value

\* A handler's "return _err(exc, ss)" after its own screenshot ss of the
\* failure r.
err_with_screenshot(r, ss) ==
    ReportsError(ss.s, r.exc, ss.value, r.calls \o ss.calls, r.shots \o ss.shots)

\* A handler's except clause that takes a screenshot when screenshot_on_error
\* is on, for the failure r.
except_with_screenshot(cfg, dir, label, r, c, o_ss, rd) ==
    IF r.exc.type # "SAPError" THEN r
    ELSE IF cfg.screenshot_on_error
    THEN err_with_screenshot(r, s_take_screenshot(r.s, dir, label, c, o_ss, rd))
    ELSE ReportsError(r.s, r.exc, None, r.calls, r.shots)

\* sap_fill_text_field after execute, e.
fill_executed(cfg, dir, label, value, e, c, o_ss, rd) ==
    IF ~e.raised
    THEN Reports(IF cfg.cap_codegen
                 THEN s_record(e.s, "Fill Text Field", <<label, record_value(label, value)>>)
                 ELSE e.s,
                 ok_text("Field '" \o label \o "' filled."), e.calls, <<>>)
    ELSE except_with_screenshot(cfg, dir, "fill_error", e, c, o_ss, rd)

\* sap_fill_text_field(label, value)
sap_fill_text_field(s, cfg, dir, label, value, c, o, o_ss, rd) ==
    IF require_connected(s.state) # NoExc
    THEN Raises(s, require_connected(s.state), <<>>, <<>>)
    ELSE fill_executed(cfg, dir, label, value,
                       s_execute(s, "Fill Text Field", <<label, value>>, c, o), c, o_ss, rd)

\* sap_push_button after _run, r.
push_ran(cfg, dir, label, r, c, o_ss2, rd2) ==
    IF ~r.raised
    THEN Reports(r.s, ok_text("Button '" \o label \o "' clicked."), r.calls, r.shots)
    ELSE except_with_screenshot(cfg, dir, "button_error", r, c, o_ss2, rd2)

\* sap_push_button(label): _run takes a screenshot on failure, and so does the
\* handler.
sap_push_button(s, cfg, dir, label, c, o, o_ss, rd, o_ss2, rd2) ==
    IF require_connected(s.state) # NoExc
    THEN Raises(s, require_connected(s.state), <<>>, <<>>)
    ELSE push_ran(cfg, dir, label, run(s, cfg, dir, "Push Button", <<label>>, c, o, o_ss, rd),
                  c, o_ss2, rd2)

\* The tools that are: require_logged_in, execute(keyword, *args), json.dumps.
ReadTools ==
    {"sap_button_exists", "sap_read_text_field", "sap_read_text", "sap_read_status_bar",
     "sap_count_table_rows", "sap_read_table_cell"}

read_keyword(name) ==
    CASE name = "sap_button_exists" -> "Highlight Button"
      [] name = "sap_read_text_field" -> "Read Text Field"
      [] name = "sap_read_text" -> "Read Text"
      [] name = "sap_read_status_bar" -> "Read Status Bar"
      [] name = "sap_count_table_rows" -> "Count Table Rows"
      [] name = "sap_read_table_cell" -> "Read Table Cell"

\* json.dumps of the dict each of them returns for the value v it read.
read_json(name, a, v) ==
    CASE name = "sap_button_exists" ->
            "{\"exists\": true, \"label\": " \o json_str(a[1]) \o "}"
      [] name = "sap_read_text_field" ->
            "{\"label\": " \o json_str(a[1]) \o ", \"value\": " \o json_str(v) \o "}"
      [] name = "sap_read_text" ->
            "{\"locator\": " \o json_str(a[1]) \o ", \"value\": " \o json_str(v) \o "}"
      [] name = "sap_read_status_bar" ->
            "{\"status_bar\": "
            \o json_str(IF v = None \/ v = "" THEN "(empty)" ELSE v) \o "}"
      [] name = "sap_count_table_rows" -> "{\"row_count\": " \o json_str(v) \o "}"
      [] name = "sap_read_table_cell" ->
            "{\"row\": " \o json_str(a[1]) \o ", \"column\": " \o json_str(a[2])
            \o ", \"value\": " \o json_str(v) \o "}"

\* A read tool after execute, e.
read_executed(name, a, e) ==
    IF ~e.raised THEN Returns(e.s, read_json(name, a, e.value), e.calls, <<>>)
    ELSE IF e.exc.type # "SAPError" THEN e
    ELSE IF name = "sap_button_exists"
    THEN Outcome(e.s, FALSE, NoExc,
                 "{\"exists\": false, \"label\": " \o json_str(a[1]) \o "}",
                 e.calls, <<>>, e.exc, None)
    ELSE ReportsError(e.s, e.exc, None, e.calls, <<>>)

\* sap_button_exists, sap_read_text_field, sap_read_text, sap_read_status_bar,
\* sap_count_table_rows, sap_read_table_cell: sap_button_exists answers a
\* SAPError with exists false, the others with _err.
read_tool(s, cfg, name, a, c, o) ==
    IF require_logged_in(s.state) # NoExc
    THEN Raises(s, require_logged_in(s.state), <<>>, <<>>)
    ELSE read_executed(name, a, s_execute(s, read_keyword(name), a, c, o))

\* json.dumps(snap, indent=2) for get_snapshot's dict.
snapshot_json(v) ==
    "{\n  \"window_title\": " \o json_str(v.window_title)
    \o ",\n  \"fields\": [],\n  \"buttons\": [],\n  \"tabs\": []"
    \o ",\n  \"status_bar\": " \o json_str(v.status_bar)
    \o ",\n  \"state\": " \o json_str(v.state) \o "\n}"

snapshot_got(r) ==
    IF ~r.raised THEN Returns(r.s, snapshot_json(r.value), r.calls, <<>>)
    ELSE except_SAPError(r)

\* sap_get_snapshot()
sap_get_snapshot(s, cfg, c, o1, o2) == snapshot_got(s_get_snapshot(s, c, o1, o2))

\* str(n) for a natural number.
RECURSIVE str_nat(_)
str_nat(n) ==
    IF n < 10 THEN CharAt("0123456789", n + 1)
    ELSE str_nat(n \div 10) \o CharAt("0123456789", (n % 10) + 1)

screenshot_got(cfg, r) ==
    IF r.value = None
    THEN Returns(r.s, "ERROR: Screenshot capture failed.", r.calls, r.shots)
    ELSE Returns(r.s,
                 ok_text_extra("Screenshot captured and saved to " \o cfg.output_dir \o ".",
                               "base64_length", str_nat(Len(r.value))),
                 r.calls, r.shots)

\* sap_take_screenshot(label)
sap_take_screenshot(s, cfg, dir, label, c, o, rd) ==
    screenshot_got(cfg, s_take_screenshot(s, dir, label, c, o, rd))

(***************************************************************************)
(* session.py: get_script                                                  *)
(***************************************************************************)
\* How many spaces a line starts with.
RECURSIVE leading_spaces(_)
leading_spaces(line) ==
    IF Len(line) > 0 /\ Head(line) = Head(" ") THEN 1 + leading_spaces(Tail(line)) ELSE 0

\* textwrap.dedent sees a line of white space only as empty.
is_blank(line) == leading_spaces(line) = Len(line)

\* The margin textwrap.dedent removes: the white space all lines that are
\* not blank start with (the lines here are indented with spaces only).
margin(lines) ==
    LET ns == {leading_spaces(lines[i]) : i \in {j \in 1..Len(lines) : ~is_blank(lines[j])}}
    IN  IF ns = {} THEN 0 ELSE CHOOSE n \in ns : \A m \in ns : n <= m

\* textwrap.dedent(text) for a text given as its lines.
dedent(lines) ==
    [i \in 1..Len(lines) |->
        IF is_blank(lines[i]) THEN ""
        ELSE SubSeq(lines[i], margin(lines) + 1, Len(lines[i]))]

\* The lines of get_script's f-string: the template as it is indented in the
\* source, the body put after the indentation of its placeholder, and the
\* indentation before the closing quotes.
template_lines(lines) ==
    <<"            *** Settings ***",
      "            Library    RoboSAPiens",
      "",
      "            *** Test Cases ***",
      "            Generated SAP Automation",
      "            " \o Head(lines)>>
    \o Tail(lines)
    \o <<"        ">>

\* A plausible slip: an empty buffer is rendered into the template.
get_script_no_placeholder(lines) ==
    join("\n", dedent(template_lines(IF lines = <<>> THEN <<"">> ELSE lines)))

\* get_script(): the placeholder for an empty buffer, else the dedented template.
get_script(lines) ==
    IF lines = <<>> THEN "# No actions recorded yet."
    ELSE join("\n", dedent(template_lines(lines)))

(***************************************************************************)
(* server.py: the codegen tools                                            *)
(***************************************************************************)
\* sap_get_generated_script()
sap_get_generated_script(s, cfg) == Returns(s, get_script(s.script_lines), <<>>, <<>>)

\* sap_clear_script()
sap_clear_script(s, cfg) ==
    Returns([s EXCEPT !.script_lines = <<>>], ok_text("Script buffer cleared."), <<>>, <<>>)

(***************************************************************************)
(* The server: one tool call at a time                                     *)
(***************************************************************************)
\* The server descriptions, paths, labels and values the tools are given.
Servers == {"ACME PRD", "ACME DEV"}
OpenPaths == {None, "D:\\SAP\\saplogon.exe"}
FillInputs ==
    {<<"User", "bob">>, <<"Password", "s3cret">>, <<"PASSWORT", "s3cret">>,
     <<"New Password", "s3cret">>}
ButtonLabels == {"Enter"}
ShotLabels == {"screenshot"}

\* The arguments each simple tool passes to _run.
simple_args(name) ==
    CASE name = "sap_select_menu_item" -> <<"Goto", "Back">>
      [] name = "sap_send_key" -> <<"Enter">>
      [] name = "sap_fill_cell" -> <<"1", "Material", "M-01">>
      [] name = "sap_scroll_table" -> <<"down", "2">>
      [] name = "sap_select_table_row" -> <<"1">>
      [] OTHER -> <<"Header">>

title_args(name) ==
    IF name = "sap_execute_transaction" THEN <<"/nME21N">> ELSE <<"1", "Material">>

read_args(name) ==
    CASE name \in {"sap_read_status_bar", "sap_count_table_rows"} -> <<>>
      [] name = "sap_read_table_cell" -> <<"1", "Material">>
      [] OTHER -> <<"User">>

\* What a library operation may do when a tool calls it.
ToolOutcomes == {Returned("SAP Easy Access"), Raised("Element 'User' not found")}

\* What saving a screenshot and reading the file back may do: <<save, read ok>>.
\* They matter only when a screenshot is taken.
ShotOutcomes ==
    {<<Returned(None), TRUE>>, <<Returned(None), FALSE>>,
     <<Raised("No SAP window to capture"), FALSE>>}
ShotChoices(taken) == IF taken THEN ShotOutcomes ELSE {<<Returned(None), TRUE>>}

\* The configurations the server is started with.
Configs ==
    {[DefaultConfig EXCEPT !.cap_codegen = TRUE, !.cap_screenshot = TRUE,
                           !.cap_advanced = TRUE, !.screenshot_on_error = TRUE],
     [DefaultConfig EXCEPT !.cap_screenshot = TRUE, !.cap_advanced = TRUE],
     [DefaultConfig EXCEPT !.screenshot_on_error = FALSE, !.sap_server = ""],
     [DefaultConfig EXCEPT !.cap_codegen = TRUE, !.cap_screenshot = TRUE,
                           !.sap_server = "ACME PRD"],
     [DefaultConfig EXCEPT !.cap_codegen = TRUE, !.cap_screenshot = TRUE,
                           !.cap_advanced = TRUE, !.sap_server = "ACME PRD",
                           !.sap_client = "100", !.sap_user = "bob",
                           !.sap_password = "s3cret"],
     [DefaultConfig EXCEPT !.sap_server = "ACME PRD", !.sap_client = "",
                           !.sap_user = "bob", !.sap_password = "s3cret"]}

\* A call, by one caller at a time, of an operation with outcome r on the
\* manager main() created.
ManagerCall(op, args, r) ==
    /\ last.op = ""
    /\ Becomes(r.s)
    /\ last' = Call(op, args, <<>>, r)
    /\ UNCHANGED <<singleton, n_managers, output_dir>>
    /\ SeqFrame

\* A tool call with outcome r: the script buffer is bounded.
Tool(op, args, r) ==
    /\ last.op = ""
    /\ Len(r.s.script_lines) <= MaxScript
    /\ ManagerCall(op, args, r)

\* A tool call that keeps what the library was made to do (outcomes).
ToolWith(op, args, outcomes, r) ==
    /\ last.op = ""
    /\ Len(r.s.script_lines) <= MaxScript
    /\ Becomes(r.s)
    /\ last' = Call(op, args, outcomes, r)
    /\ UNCHANGED <<singleton, n_managers, output_dir>>
    /\ SeqFrame

SapOpen ==
    \E path \in OpenPaths, c \in CreateChoices(lib), o \in ToolOutcomes :
        Tool("sap_open", <<path>>, sap_open(Session, config, path, c, o))

SapConnectToServer ==
    \E d \in Servers, c \in CreateChoices(lib), o \in ToolOutcomes :
        Tool("sap_connect_to_server", <<d>>, sap_connect_to_server(Session, config, d, c, o))

SapConnectToRunning ==
    \E c \in CreateChoices(lib), o \in ToolOutcomes :
        Tool("sap_connect_to_running", <<>>, sap_connect_to_running(Session, config, c, o))

SapGetSessionInfo ==
    \E c \in CreateChoices(lib), o \in ToolOutcomes :
        Tool("sap_get_session_info", <<>>, sap_get_session_info(Session, config, c, o))

SapClose ==
    \E c \in CreateChoices(lib), o \in ToolOutcomes :
        Tool("sap_close", <<>>, sap_close(Session, config, c, o))

SapGetWindowTitle ==
    \E c \in CreateChoices(lib), o \in ToolOutcomes :
        Tool("sap_get_window_title", <<>>, sap_get_window_title(Session, config, c, o))

SapSimpleTool ==
    \E name \in SimpleTools, c \in CreateChoices(lib), o \in ToolOutcomes :
    \E sh \in ShotChoices(o.raised /\ config.screenshot_on_error) :
        Tool(name, simple_args(name),
             simple_tool(Session, config, output_dir, name, simple_args(name),
                         c, o, sh[1], sh[2]))

SapTitleTool ==
    \E name \in TitleTools, c \in CreateChoices(lib), o \in ToolOutcomes :
    \E sh \in ShotChoices(o.raised /\ config.screenshot_on_error),
       o_title \in (IF o.raised THEN {Returned(None)} ELSE ToolOutcomes) :
        Tool(name, title_args(name),
             title_tool(Session, config, output_dir, name, title_args(name),
                        c, o, sh[1], sh[2], o_title))

SapFillTextField ==
    \E a \in FillInputs, c \in CreateChoices(lib), o \in ToolOutcomes :
    \E sh \in ShotChoices(o.raised /\ config.screenshot_on_error) :
        ToolWith("sap_fill_text_field", a, <<c, o, sh>>,
                 sap_fill_text_field(Session, config, output_dir, a[1], a[2],
                                     c, o, sh[1], sh[2]))

\* The call keeps what the library was made to do: the creation, the command
\* and the two screenshots.
SapPushButton ==
    \E label \in ButtonLabels, c \in CreateChoices(lib), o \in ToolOutcomes :
    \E sh \in ShotOutcomes, sh2 \in ShotOutcomes :
        ToolWith("sap_push_button", <<label>>, <<c, o, sh, sh2>>,
                 sap_push_button(Session, config, output_dir, label,
                                 c, o, sh[1], sh[2], sh2[1], sh2[2]))

SapReadTool ==
    \E name \in ReadTools, c \in CreateChoices(lib), o \in ToolOutcomes :
        Tool(name, read_args(name), read_tool(Session, config, name, read_args(name), c, o))

\* Registered only with the screenshot capability.
SapTakeScreenshot ==
    \E label \in ShotLabels, c \in CreateChoices(lib), sh \in ShotOutcomes :
        /\ config.cap_screenshot
        /\ Tool("sap_take_screenshot", <<label>>,
                sap_take_screenshot(Session, config, output_dir, label, c, sh[1], sh[2]))

\* Registered only with the codegen capability.
SapClearScript ==
    /\ config.cap_codegen
    /\ Tool("sap_clear_script", <<>>, sap_clear_script(Session, config))

\* Registered only with the codegen capability.
SapGetGeneratedScript ==
    /\ config.cap_codegen
    /\ Tool("sap_get_generated_script", <<>>, sap_get_generated_script(Session, config))

\* Registered only with the advanced capability.
SapGetSnapshot ==
    \E c \in CreateChoices(lib), o1 \in ToolOutcomes, o2 \in ToolOutcomes :
        /\ config.cap_advanced
        /\ ToolWith("sap_get_snapshot", <<>>, <<c, o1, o2>>,
                    sap_get_snapshot(Session, config, c, o1, o2))

\* The session of the manager main() has just created.
FreshSession ==
    [lib |-> NoLib, n_libs |-> 0, state |-> "DISCONNECTED", server_description |-> None,
     script_lines |-> <<>>]

\* _auto_connect stops at the exception of e: a SAPError is logged and the
\* server starts; any other exception leaves main().
auto_stopped(e) == [s |-> e.s, served |-> e.exc.type = "SAPError"]

\* _auto_connect after Send SAP Keys, e.
auto_sent(e) ==
    IF e.raised THEN auto_stopped(e)
    ELSE [s |-> set_state(e.s, "LOGGED_IN"), served |-> TRUE]

\* _auto_connect after the k-th command of the login, e; os are the outcomes
\* of the commands.
RECURSIVE auto_login(_, _, _, _)
auto_login(cfg, k, e, os) ==
    IF e.raised THEN auto_stopped(e)
    ELSE IF k = 1
    THEN auto_login(cfg, 2, s_execute(e.s, "Fill Text Field", <<"User", cfg.sap_user>>,
                                      "ok", os[4]), os)
    ELSE IF k = 2
    THEN auto_login(cfg, 3, s_execute(e.s, "Fill Text Field",
                                      <<"Password", cfg.sap_password>>, "ok", os[5]), os)
    ELSE auto_sent(s_execute(e.s, "Send SAP Keys", <<"Enter">>, "ok", os[6]))

\* _auto_connect after Connect To Server, e: the login follows when the
\* client, the user and the password of the configuration are true values,
\* neither None nor the empty string.
auto_connected(cfg, e, os) ==
    IF e.raised THEN auto_stopped(e)
    ELSE IF /\ cfg.sap_client \notin {None, ""}
            /\ cfg.sap_user \notin {None, ""}
            /\ cfg.sap_password \notin {None, ""}
    THEN auto_login(cfg, 1,
                    s_execute(set_state(e.s, "CONNECTED"), "Fill Text Field",
                              <<"Client", cfg.sap_client>>, "ok", os[3]), os)
    ELSE [s |-> set_state(e.s, "CONNECTED"), served |-> TRUE]

\* _auto_connect after Open SAP, e.
auto_opened(cfg, e, os) ==
    IF e.raised THEN auto_stopped(e)
    ELSE auto_connected(cfg,
                        s_execute(set_state(e.s, "SAP_OPEN"), "Connect To Server",
                                  <<cfg.sap_server>>, "ok", os[2]), os)

\* _auto_connect(config, log): no line is recorded and _server_description
\* is not set.
auto_connect(s, cfg, c, os) ==
    auto_opened(cfg, s_execute(s, "Open SAP", <<cfg.saplogon_path>>, c, os[1]), os)

\* main() from the creation of the manager to mcp.run(): the session the
\* server starts to serve with, if it starts.
main_started(cfg, c, os) ==
    IF cfg.sap_server \notin {None, ""} THEN auto_connect(FreshSession, cfg, c, os)
    ELSE [s |-> FreshSession, served |-> TRUE]

\* main(): the manager is created with the configured output directory, the
\* server is built, _auto_connect runs when a server is configured, then the
\* server serves tool calls.
Init ==
    /\ config \in Configs
    /\ singleton = 1
    /\ n_managers = 1
    /\ output_dir = config.output_dir
    /\ \E c \in CreateOutcomes, os \in [1..6 -> ToolOutcomes] :
          LET m == main_started(config, c, os) IN
          /\ m.served
          /\ lib = m.s.lib
          /\ n_libs = m.s.n_libs
          /\ state = m.s.state
          /\ server_description = m.s.server_description
          /\ script_lines = m.s.script_lines
    /\ last = NoCall
    /\ cls_lock = 0
    /\ script_lock = 0
    /\ inflight = {}
    /\ pc = NoThreads
    /\ loc = NoLocals

Next ==
    \/ SapOpen
    \/ SapConnectToServer
    \/ SapConnectToRunning
    \/ SapGetSessionInfo
    \/ SapClose
    \/ SapGetWindowTitle
    \/ SapSimpleTool
    \/ SapTitleTool
    \/ SapFillTextField
    \/ SapPushButton
    \/ SapReadTool
    \/ SapTakeScreenshot
    \/ SapClearScript
    \/ SapGetGeneratedScript
    \/ SapGetSnapshot
    \/ RequireConnected
    \/ RequireLoggedIn
    \/ Respond

Spec == Init /\ [][Next]_vars

(***************************************************************************)
(* _extract_hint applied to error messages                                 *)
(***************************************************************************)
\* How many fragments an error message is made of.
MaxFrags == 2

\* Pieces of error messages: the words the rules look for, in several
\* spellings, whole and split, and text no rule looks for.
Fragments ==
    {"Element not found", " Not FOUND", "Scripting is disabled", " SCRIPTING",
     "Connection lost", " SERVER down", "Password ", " LOGIN failed",
     "not ", "found", "pass", "word", "COM error"}

\* The fragments of fs, concatenated.
RECURSIVE concat(_)
concat(fs) == IF Len(fs) = 0 THEN "" ELSE Head(fs) \o concat(Tail(fs))

\* _extract_hint(error_msg) for a message of up to MaxFrags fragments.
ExtractHint ==
    \E n \in 1..MaxFrags :
    \E fs \in [1..n -> Fragments] :
        /\ last.op = ""
        /\ last' = Call("_extract_hint", <<concat(fs)>>, <<>>,
                        Returns(Session, extract_hint(concat(fs)), <<>>, <<>>))
        /\ UNCHANGED <<singleton, n_managers, output_dir, lib, n_libs, state,
                       server_description, script_lines>>
        /\ SeqFrame

NextHint == ExtractHint \/ Respond

SpecHint == InitApi /\ [][NextHint]_vars

(***************************************************************************)
(* Concurrent callers: create and instance, statement by statement         *)
(***************************************************************************)
\* A plausible slip: create does not take the class lock.
lock_not_taken(holder) == TRUE

\* "with cls._lock:" can be entered while no thread holds the lock.
lock_free(holder) == holder = 0

\* What the threads leave alone.
ThreadFrame == UNCHANGED <<config, last, inflight, script_lock>>
ManagerUnchanged ==
    UNCHANGED <<singleton, n_managers, output_dir, lib, n_libs, state, server_description,
                script_lines>>

\* Thread t calls SAPSessionManager.create(dir).
CreateCall(t) ==
    \E dir \in OutputDirs :
        /\ pc[t] = "idle"
        /\ pc' = [pc EXCEPT ![t] = "create_acquire"]
        /\ loc' = [loc EXCEPT ![t].op = "create", ![t].arg = dir, ![t].ret = NoManager,
                              ![t].raised = FALSE]
        /\ ManagerUnchanged /\ UNCHANGED cls_lock /\ ThreadFrame

\* with cls._lock:
CreateAcquire(t) ==
    /\ pc[t] = "create_acquire"
    /\ lock_free(cls_lock)
    /\ cls_lock' = t
    /\ pc' = [pc EXCEPT ![t] = "create_check"]
    /\ ManagerUnchanged /\ UNCHANGED loc /\ ThreadFrame

\* if cls._singleton is None:
CreateCheck(t) ==
    /\ pc[t] = "create_check"
    /\ pc' = [pc EXCEPT ![t] = IF singleton = NoManager THEN "create_construct"
                                 ELSE "create_release"]
    /\ ManagerUnchanged /\ UNCHANGED <<cls_lock, loc>> /\ ThreadFrame

\* cls._singleton = cls(output_dir); built remembers that this thread's
\* create constructed a manager, and with which directory.
CreateConstruct(t) ==
    /\ pc[t] = "create_construct"
    /\ Construct(loc[t].arg)
    /\ loc' = [loc EXCEPT ![t].built = loc[t].arg]
    /\ pc' = [pc EXCEPT ![t] = "create_release"]
    /\ UNCHANGED <<n_libs, cls_lock>> /\ ThreadFrame

\* The with block is left.
CreateRelease(t) ==
    /\ pc[t] = "create_release"
    /\ cls_lock' = 0
    /\ pc' = [pc EXCEPT ![t] = "create_return"]
    /\ ManagerUnchanged /\ UNCHANGED loc /\ ThreadFrame

\* return cls._singleton
CreateReturn(t) ==
    /\ pc[t] = "create_return"
    /\ loc' = [loc EXCEPT ![t].ret = singleton]
    /\ pc' = [pc EXCEPT ![t] = "idle"]
    /\ ManagerUnchanged /\ UNCHANGED cls_lock /\ ThreadFrame

\* Thread t calls SAPSessionManager.instance().
InstanceCall(t) ==
    LET r == instance(singleton) IN
    /\ pc[t] = "idle"
    /\ IF r.build THEN Construct(r.dir) ELSE UNCHANGED ManagerFields
    /\ loc' = [loc EXCEPT ![t].op = "instance", ![t].arg = None,
                          ![t].ret = IF r.raised THEN NoManager ELSE singleton',
                          ![t].raised = r.raised]
    /\ UNCHANGED <<n_libs, cls_lock, pc>> /\ ThreadFrame

NextCreate ==
    \E t \in Threads :
        \/ CreateCall(t)
        \/ CreateAcquire(t)
        \/ CreateCheck(t)
        \/ CreateConstruct(t)
        \/ CreateRelease(t)
        \/ CreateReturn(t)
        \/ InstanceCall(t)

SpecCreate == InitApi /\ [][NextCreate]_vars

(***************************************************************************)
(* Concurrent callers: execute, statement by statement                     *)
(***************************************************************************)
\* The command names the threads execute.
ExecKeywords == {"Fill Text Field", "Bogus Keyword"}

\* Where a call of the manager returns to: the thread that called it
\* directly is idle again, a tool handler goes on with its next statement.
Resume(t) == IF loc[t].frame.stage = "" THEN "idle" ELSE "serve"

\* Thread t calls session.execute(keyword, ...).
ExecuteCall(t) ==
    \E keyword \in ExecKeywords :
        /\ pc[t] = "idle"
        /\ pc' = [pc EXCEPT ![t] = "get_lib"]
        /\ loc' = [loc EXCEPT ![t].op = "execute", ![t].arg = keyword, ![t].lib = NoLib,
                              ![t].raised = FALSE, ![t].exc = NoExc]
        /\ ManagerUnchanged /\ UNCHANGED cls_lock /\ ThreadFrame

\* _get_lib: if self._lib is None:
GetLibCheck(t) ==
    /\ pc[t] = "get_lib"
    /\ pc' = [pc EXCEPT ![t] = IF lib = NoLib THEN "get_lib_construct" ELSE "get_lib_return"]
    /\ ManagerUnchanged /\ UNCHANGED <<cls_lock, loc>> /\ ThreadFrame

\* _get_lib: the import and RoboSAPiens(), by a thread that found _lib None:
\* the handle is built (made) and not yet stored, or the exception leaves
\* _get_lib.
GetLibConstruct(t) ==
    \E c \in CreateOutcomes :
        LET g == get_lib(NoLib, n_libs + 1, c) IN
        /\ pc[t] = "get_lib_construct"
        /\ IF g.raised
           THEN /\ UNCHANGED n_libs
                /\ loc' = [loc EXCEPT ![t].raised = TRUE, ![t].exc = g.exc]
                /\ pc' = [pc EXCEPT ![t] = Resume(t)]
           ELSE /\ n_libs' = n_libs + g.built
                /\ loc' = [loc EXCEPT ![t].made = g.lib]
                /\ pc' = [pc EXCEPT ![t] = "get_lib_store"]
        /\ UNCHANGED <<singleton, n_managers, output_dir, lib, state, server_description,
                       script_lines, cls_lock>>
        /\ ThreadFrame

\* _get_lib: self._lib = the handle RoboSAPiens() returned.
GetLibStore(t) ==
    /\ pc[t] = "get_lib_store"
    /\ lib' = loc[t].made
    /\ loc' = [loc EXCEPT ![t].made = NoLib]
    /\ pc' = [pc EXCEPT ![t] = "get_lib_return"]
    /\ UNCHANGED <<singleton, n_managers, output_dir, n_libs, state, server_description,
                   script_lines, cls_lock>>
    /\ ThreadFrame

\* _get_lib: return self._lib
GetLibReturn(t) ==
    /\ pc[t] = "get_lib_return"
    /\ loc' = [loc EXCEPT ![t].lib = lib]
    /\ pc' = [pc EXCEPT ![t] = "getattr"]
    /\ ManagerUnchanged /\ UNCHANGED cls_lock /\ ThreadFrame

\* execute: method = getattr(lib, method_name, None); an unknown name raises.
ExecuteGetattr(t) ==
    /\ pc[t] = "getattr"
    /\ IF getattr_lib(method_name_of(loc[t].arg)) = None
       THEN /\ loc' = [loc EXCEPT ![t].raised = TRUE,
                                  ![t].exc = execute(lib, n_libs + 1, loc[t].arg, <<>>,
                                                     "ok", Returned(None)).exc]
            /\ pc' = [pc EXCEPT ![t] = Resume(t)]
       ELSE /\ UNCHANGED loc
            /\ pc' = [pc EXCEPT ![t] = "call"]
    /\ ManagerUnchanged /\ UNCHANGED cls_lock
    /\ ThreadFrame

\* execute: method(*args) starts; the command is in flight in the library.
ExecuteInvoke(t) ==
    /\ pc[t] = "call"
    /\ inflight' = inflight \cup {t}
    /\ pc' = [pc EXCEPT ![t] = "in_call"]
    /\ ManagerUnchanged /\ UNCHANGED <<cls_lock, script_lock, loc, config, last>>

\* execute: method(*args) returns or raises.
ExecuteFinish(t) ==
    \E o \in LibOutcomes :
        /\ pc[t] = "in_call"
        /\ inflight' = inflight \ {t}
        /\ loc' = [loc EXCEPT ![t].raised = o.raised,
                              ![t].exc = IF o.raised
                                         THEN SAPError(o.message, extract_hint(o.message),
                                                       loc[t].arg)
                                         ELSE NoExc]
        /\ pc' = [pc EXCEPT ![t] = Resume(t)]
        /\ ManagerUnchanged /\ UNCHANGED <<cls_lock, script_lock, config, last>>

NextExec ==
    \E t \in Threads :
        \/ ExecuteCall(t)
        \/ GetLibCheck(t)
        \/ GetLibConstruct(t)
        \/ GetLibStore(t)
        \/ GetLibReturn(t)
        \/ ExecuteGetattr(t)
        \/ ExecuteInvoke(t)
        \/ ExecuteFinish(t)

\* main() has created the manager; the threads are tool calls being served.
SpecExec == Init /\ [][NextExec]_vars

(***************************************************************************)
(* Properties                                                              *)
(***************************************************************************)
\* A call left the session's state, server description and script as found.
SessionUntouched ==
    /\ state = last.pre.state
    /\ server_description = last.pre.server_description
    /\ script_lines = last.pre.script_lines

\* C1: in every session state, require_connected raises a SAPError with the
\* message 'No active SAP connection' and a non-empty hint exactly when the
\* state is neither CONNECTED nor LOGGED_IN, require_logged_in raises a
\* SAPError exactly when the state is not LOGGED_IN, otherwise each returns
\* normally; neither changes the state, the server description or the script.
C1_GuardsRaiseExactlyOutsideAllowedStates ==
    /\ last.op = "require_connected" =>
        /\ last.raised <=> last.pre.state \notin {"CONNECTED", "LOGGED_IN"}
        /\ last.raised =>
            /\ last.exc.type = "SAPError"
            /\ last.exc.message = "No active SAP connection"
            /\ last.exc.hint # ""
        /\ ~last.raised => last.value = None
        /\ SessionUntouched
    /\ last.op = "require_logged_in" =>
        /\ last.raised <=> last.pre.state # "LOGGED_IN"
        /\ last.raised =>
            /\ last.exc.type = "SAPError"
            /\ last.exc.message = "Not logged in to SAP"
            /\ last.exc.hint # ""
        /\ ~last.raised => last.value = None
        /\ SessionUntouched

\* require_logged_in has raised in state CONNECTED, where require_connected
\* passes, with a server description set and a line in the script.
C1_Witness ==
    /\ last.op = "require_logged_in"
    /\ last.raised
    /\ last.pre.state = "CONNECTED"
    /\ server_description # None
    /\ script_lines # <<>>

\* The tool handlers that start with require_logged_in (get_snapshot's guard
\* is the first statement of session.get_snapshot) and with require_connected.
LoggedInTools == SimpleTools \cup TitleTools \cup ReadTools \cup {"sap_get_snapshot"}
ConnectedTools == {"sap_fill_text_field", "sap_push_button"}

\* The last call was made in a state its guard does not accept.
GuardFails ==
    \/ last.op \in LoggedInTools /\ last.pre.state # "LOGGED_IN"
    \/ last.op \in ConnectedTools /\ last.pre.state \notin {"CONNECTED", "LOGGED_IN"}

\* C2: a tool handler that starts with a guard, called in a state that does
\* not satisfy the guard, is rejected with the guard's error, and that call
\* neither creates the library handle nor invokes a library operation.
C2_GuardedToolsRejectBeforeTheLibrary ==
    GuardFails =>
        /\ \/ last.raised /\ last.exc.type = "SAPError" /\ last.exc.keyword = ""
           \/ last.handled.type = "SAPError" /\ last.handled.keyword = ""
        /\ last.calls = <<>>
        /\ last.shots = <<>>
        /\ lib = last.pre.lib
        /\ n_libs = last.pre.n_libs

\* A guarded tool was called while SAP Logon was open but not connected, and
\* before any library handle existed.
C2_Witness ==
    /\ GuardFails
    /\ last.op = "sap_fill_cell"
    /\ last.pre.state = "SAP_OPEN"
    /\ last.raised

\* C3: execute with a name whose normalized form is no keyword method of the
\* library always raises a SAPError whose hint cites the normalized name, and
\* invokes nothing.  (The library handle exists or is created without error.)
C3_UnknownKeywordAlwaysRejected ==
    (/\ last.op = "execute"
     /\ method_name_of(last.args[1]) \notin LibMethods
     /\ (last.pre.lib # NoLib \/ last.outcomes[1] = "ok")) =>
        /\ last.raised
        /\ last.exc.type = "SAPError"
        /\ contains(method_name_of(last.args[1]), last.exc.hint)
        /\ last.calls = <<>>

\* C4: when the keyword method that execute resolved raises, execute raises a
\* SAPError whose message is the method's error text, whose hint is
\* _extract_hint of that text and whose keyword is the name as the caller
\* passed it, not the normalized name.
C4_OperationErrorIsWrapped ==
    (/\ last.op = "execute"
     /\ last.calls # <<>>
     /\ last.outcomes[2].raised) =>
        /\ last.raised
        /\ last.exc.type = "SAPError"
        /\ last.exc.message = last.outcomes[2].message
        /\ last.exc.hint = extract_hint(last.outcomes[2].message)
        /\ last.exc.keyword = last.args[1]

\* "Fill Text Field" was resolved to fill_text_field, which raised with a
\* text the classifier knows.
C4_Witness ==
    /\ last.op = "execute"
    /\ last.args[1] = "Fill Text Field"
    /\ last.calls = <<[method |-> "fill_text_field", args |-> last.args[2]]>>
    /\ last.outcomes[2].raised
    /\ last.exc.hint = HintNotFound
    /\ last.exc.keyword # method_name_of(last.args[1])

\* C5: every exception that leaves instance, execute (the lazy creation of the
\* library included), a guard or get_snapshot is a SAPError.
C5_OnlySAPErrorLeavesTheManager ==
    (/\ last.op \in {"instance", "execute", "require_connected", "require_logged_in",
                     "get_snapshot"}
     /\ last.raised) =>
        last.exc.type = "SAPError"

\* C6: instance() while no manager was created raises and constructs
\* nothing, the singleton stays unset; a create that finds the singleton
\* unset constructs the manager with the output directory it was given.
C6_InstanceBeforeCreateFails ==
    /\ (last.op = "instance" /\ last.pre.singleton = NoManager) =>
        /\ last.raised
        /\ singleton = NoManager
        /\ n_managers = last.pre.n_managers
    /\ (last.op = "create" /\ last.pre.singleton = NoManager) =>
        /\ ~last.raised
        /\ singleton # NoManager
        /\ last.value = singleton
        /\ n_managers = last.pre.n_managers + 1
        /\ output_dir = last.args[1]

\* A lookup has failed before any create.
C6_Witness ==
    /\ last.op = "instance"
    /\ last.pre.singleton = NoManager
    /\ last.raised
    /\ singleton = NoManager
    /\ n_managers = 0

\* The rules as the order the documentation gives them: the words a rule
\* looks for and the hint it gives.
HintRules ==
    <<[words |-> {"not found"}, hint |-> HintNotFound],
      [words |-> {"scripting"}, hint |-> HintScripting],
      [words |-> {"connection", "server"}, hint |-> HintConnection],
      [words |-> {"password", "login"}, hint |-> HintLogin]>>

\* Rule i matches a message: the lower-cased message contains one of its words.
RuleMatches(i, msg) == \E w \in HintRules[i].words : contains(w, lower(msg))

\* The hint of the first rule that matches, the empty hint when none does.
FirstMatchHint(msg) ==
    IF \E i \in 1..Len(HintRules) : RuleMatches(i, msg)
    THEN HintRules[CHOOSE i \in 1..Len(HintRules) :
                       /\ RuleMatches(i, msg)
                       /\ \A j \in 1..(i - 1) : ~RuleMatches(j, msg)].hint
    ELSE ""

\* C10: for every error message _extract_hint returns the hint of the first
\* rule, in the order not found, scripting, connection or server, password or
\* login, that matches the lower-cased message, and the empty hint when none
\* matches; a message with both 'not found' and 'password' gets the
\* not-found hint, and the case of the message makes no difference.
C10_HintIsTheFirstMatchingRule ==
    last.op = "_extract_hint" =>
        /\ last.value = FirstMatchHint(last.args[1])
        /\ (contains("not found", lower(last.args[1]))
            /\ contains("password", lower(last.args[1]))) => last.value = HintNotFound
        /\ last.value = extract_hint(lower(last.args[1]))

\* A message that names the password before it says not found, in mixed
\* case, was classified.
C10_Witness ==
    /\ last.op = "_extract_hint"
    /\ last.args[1] = "Password  Not FOUND"
    /\ last.value = HintNotFound

\* Thread t has returned from the call it made.
HasReturned(t, op) == pc[t] = "idle" /\ loc[t].op = op /\ ~loc[t].raised

\* C7: however the create calls of concurrent threads interleave and
\* whatever directories they pass, at most one manager is ever constructed;
\* every create that has returned and every lookup that has returned gave
\* that manager, and its output directory is the one passed to the create
\* that constructed it.
C7_OneManagerIsConstructed ==
    /\ n_managers <= 1
    /\ \A t \in Threads :
        /\ HasReturned(t, "create") => loc[t].ret = singleton /\ singleton # NoManager
        /\ HasReturned(t, "instance") => loc[t].ret = singleton /\ singleton # NoManager
        /\ loc[t].built # None => output_dir = loc[t].built
    /\ singleton # NoManager => \E t \in Threads : loc[t].built # None

\* Two threads have returned from creates with different directories; one of
\* them constructed the manager.
C7_Witness ==
    \E t1 \in Threads, t2 \in Threads :
        /\ t1 # t2
        /\ HasReturned(t1, "create") /\ HasReturned(t2, "create")
        /\ loc[t1].arg # loc[t2].arg
        /\ loc[t1].built = loc[t1].arg
        /\ loc[t2].built = None
        /\ loc[t2].ret = loc[t1].ret

\* C8: however execute calls interleave, the library handle is constructed
\* at most once, and every execute that got a handle from _get_lib holds the
\* handle the manager holds: the handle is never replaced.
C8_HandleConstructedAtMostOnce ==
    /\ n_libs <= 1
    /\ \A t \in Threads :
        pc[t] \in {"getattr", "call", "in_call"} => loc[t].lib = lib

\* C9: at most one command is in flight in the library at any time.
C9_OneCommandInFlight == Cardinality(inflight) <= 1

(***************************************************************************)
(* The script recorder: record, get_script, clear_script                   *)
(***************************************************************************)
\* How many lines the recorder is given before recording stops.
MaxLines == 3

\* The commands record is given: a keyword and its arguments.
RecordInputs ==
    {<<"Fill Text Field", <<"User", "bob">>>>, <<"Close SAP", <<>>>>,
     <<"Send SAP Keys", <<"Enter">>>>}

\* session.record(keyword, *args)
Record ==
    \E k \in RecordInputs :
        /\ Len(script_lines) < MaxLines
        /\ ManagerCall("record", k, Returns(s_record(Session, k[1], k[2]), None, <<>>, <<>>))

\* session.get_script()
GetScript ==
    ManagerCall("get_script", <<>>, Returns(Session, get_script(script_lines), <<>>, <<>>))

\* session.clear_script()
ClearScript ==
    ManagerCall("clear_script", <<>>,
                Returns([Session EXCEPT !.script_lines = <<>>], None, <<>>, <<>>))

NextScript == Record \/ GetScript \/ ClearScript \/ Respond

\* The recorder of the manager main() created, called by one caller at a time.
SpecScript == Init /\ [][NextScript]_vars

\* The session manager used directly: any public operation, in any order;
\* the operations of an instance need the manager to exist.
NextApi ==
    \/ Instance
    \/ Create
    \/ Execute
    \/ SetState
    \/ RequireConnected
    \/ RequireLoggedIn
    \/ GetSnapshot
    \/ TakeScreenshot
    \/ singleton # NoManager /\ Record
    \/ singleton # NoManager /\ GetScript
    \/ singleton # NoManager /\ ClearScript
    \/ Respond

SpecApi == InitApi /\ [][NextApi]_vars

\* text.split(sep) for a separator of one character.
RECURSIVE split(_, _)
split(text, sep) ==
    IF \A i \in 1..Len(text) : SubSeq(text, i, i) # sep THEN <<text>>
    ELSE LET k == CHOOSE i \in 1..Len(text) :
                      /\ SubSeq(text, i, i) = sep
                      /\ \A j \in 1..(i - 1) : SubSeq(text, j, j) # sep
         IN  <<SubSeq(text, 1, k - 1)>> \o split(SubSeq(text, k + 1, Len(text)), sep)

\* line.lstrip(" ")
lstrip(line) == SubSeq(line, leading_spaces(line) + 1, Len(line))

\* The lines of a script text below the five lines of the template's header,
\* without their indentation; the text ends with a line break.
ScriptBody(text) ==
    LET ls == split(text, "\n")
    IN  [i \in 1..(Len(ls) - 6) |-> lstrip(ls[i + 5])]

\* C11: record appends exactly one line, which holds the keyword and every
\* argument, at the end of the script and leaves the earlier lines as they
\* were; get_script on a script that is not empty returns the template with
\* every line of the script exactly once, in the order recorded (a line is
\* compared without its indentation), and get_script changes no line.
C11_RecordAppendsAndScriptKeepsOrder ==
    /\ last.op = "record" =>
        /\ Len(script_lines) = Len(last.pre.script_lines) + 1
        /\ SubSeq(script_lines, 1, Len(last.pre.script_lines)) = last.pre.script_lines
        /\ contains(last.args[1], script_lines[Len(script_lines)])
        /\ \A i \in 1..Len(last.args[2]) :
              contains(last.args[2][i], script_lines[Len(script_lines)])
    /\ last.op = "get_script" =>
        /\ script_lines = last.pre.script_lines
        /\ script_lines # <<>> =>
            /\ [i \in 1..5 |-> lstrip(split(last.value, "\n")[i])]
                   = <<"*** Settings ***", "Library    RoboSAPiens", "",
                       "*** Test Cases ***", "Generated SAP Automation">>
            /\ ScriptBody(last.value) = [i \in 1..Len(script_lines) |-> lstrip(script_lines[i])]

\* get_script has rendered a script of three different lines.
C11_Witness ==
    /\ last.op = "get_script"
    /\ Len(script_lines) = 3
    /\ script_lines[1] # script_lines[2]
    /\ script_lines[2] # script_lines[3]
    /\ script_lines[1] # script_lines[3]
    /\ contains("bob", last.value)

\* What get_script returns on a manager that has recorded nothing.
Placeholder == "# No actions recorded yet."

\* C12: after clear_script, whatever was recorded before, the buffer is
\* empty and get_script gives the placeholder of a fresh manager; a record on
\* the emptied buffer gives a script with that line only; get_script on an
\* empty buffer returns the placeholder, never the template.
C12_ClearGivesAFreshScript ==
    /\ last.op = "clear_script" =>
        /\ script_lines = <<>>
        /\ get_script(script_lines) = Placeholder
    /\ (last.op = "record" /\ last.pre.script_lines = <<>>) =>
        /\ Len(script_lines) = 1
        /\ ScriptBody(get_script(script_lines)) = <<lstrip(script_lines[1])>>
    /\ (last.op = "get_script" /\ last.pre.script_lines = <<>>) =>
        /\ last.value = Placeholder
        /\ ~contains("*** Settings ***", last.value)

\* A buffer of three lines was cleared.
C12_Witness ==
    /\ last.op = "clear_script"
    /\ Len(last.pre.script_lines) = 3
    /\ script_lines = <<>>

(***************************************************************************)
(* Concurrent callers: record, get_script, clear_script, by statement      *)
(***************************************************************************)
\* Thread t calls record(k), get_script() or clear_script(); record builds
\* its line before it takes the lock.
ScriptCall(t) ==
    \E op \in {"record", "get_script", "clear_script"}, k \in RecordInputs :
        /\ pc[t] = "idle"
        /\ op = "record" => Len(script_lines) < MaxLines
        /\ pc' = [pc EXCEPT ![t] = "script_acquire"]
        /\ loc' = [loc EXCEPT ![t].op = op,
                              ![t].arg = IF op = "record" THEN script_line(k[1], k[2])
                                         ELSE None,
                              ![t].built = None]
        /\ ManagerUnchanged /\ UNCHANGED <<cls_lock, script_lock, config, last, inflight>>

\* with self._script_lock:
ScriptAcquire(t) ==
    /\ pc[t] = "script_acquire"
    /\ lock_free(script_lock)
    /\ script_lock' = t
    /\ pc' = [pc EXCEPT ![t] = loc[t].op]
    /\ ManagerUnchanged /\ UNCHANGED <<cls_lock, loc, config, last, inflight>>

\* record: self._script_lines.append(line); ret counts the lines the thread
\* has appended since the buffer was last cleared.
RecordAppend(t) ==
    /\ pc[t] = "record"
    /\ script_lines' = Append(script_lines, loc[t].arg)
    /\ loc' = [loc EXCEPT ![t].ret = @ + 1]
    /\ pc' = [pc EXCEPT ![t] = "script_release"]
    /\ UNCHANGED <<singleton, n_managers, output_dir, lib, n_libs, state, server_description,
                   cls_lock, script_lock, config, last, inflight>>

\* get_script: if not self._script_lines: return the placeholder; arg keeps
\* the buffer the test saw.
GetScriptCheck(t) ==
    /\ pc[t] = "get_script"
    /\ loc' = [loc EXCEPT ![t].arg = script_lines,
                          ![t].built = IF script_lines = <<>> THEN <<>> ELSE None]
    /\ pc' = [pc EXCEPT ![t] = IF script_lines = <<>> THEN "script_release" ELSE "get_join"]
    /\ ManagerUnchanged /\ UNCHANGED <<cls_lock, script_lock, config, last, inflight>>

\* get_script: body = "\n".join(self._script_lines); built keeps the lines
\* joined.
GetScriptJoin(t) ==
    /\ pc[t] = "get_join"
    /\ loc' = [loc EXCEPT ![t].built = script_lines]
    /\ pc' = [pc EXCEPT ![t] = "script_release"]
    /\ ManagerUnchanged /\ UNCHANGED <<cls_lock, script_lock, config, last, inflight>>

\* clear_script: self._script_lines.clear(); no appended line is left.
ClearScriptClear(t) ==
    /\ pc[t] = "clear_script"
    /\ script_lines' = <<>>
    /\ loc' = [u \in Threads |-> [loc[u] EXCEPT !.ret = 0]]
    /\ pc' = [pc EXCEPT ![t] = "script_release"]
    /\ UNCHANGED <<singleton, n_managers, output_dir, lib, n_libs, state, server_description,
                   cls_lock, script_lock, config, last, inflight>>

\* The with block is left and the call returns.
ScriptRelease(t) ==
    /\ pc[t] = "script_release"
    /\ script_lock' = 0
    /\ pc' = [pc EXCEPT ![t] = Resume(t)]
    /\ ManagerUnchanged /\ UNCHANGED <<cls_lock, loc, config, last, inflight>>

NextRecorder ==
    \E t \in Threads :
        \/ ScriptCall(t)
        \/ ScriptAcquire(t)
        \/ RecordAppend(t)
        \/ GetScriptCheck(t)
        \/ GetScriptJoin(t)
        \/ ClearScriptClear(t)
        \/ ScriptRelease(t)

SpecRecorder == Init /\ [][NextRecorder]_vars

\* The sum of f over the threads.
RECURSIVE SumOver(_, _)
SumOver(f, ts) ==
    IF ts = {} THEN 0
    ELSE LET t == CHOOSE u \in ts : TRUE IN f[t] + SumOver(f, ts \ {t})

\* C13: however record, get_script and clear_script calls of concurrent
\* threads interleave, the buffer holds exactly the lines appended since it
\* was last cleared, none lost and none twice, the line a thread has just
\* appended is in it, and what a get_script joins is the buffer its
\* emptiness test saw: the content of the buffer at one instant, and never
\* an empty template body.
C13_RecorderCallsAreAtomic ==
    /\ Len(script_lines) = SumOver([t \in Threads |-> loc[t].ret], Threads)
    /\ \A t \in Threads :
        /\ (loc[t].op = "record" /\ pc[t] = "script_release") =>
              \E i \in 1..Len(script_lines) : script_lines[i] = loc[t].arg
        /\ (loc[t].op = "get_script" /\ pc[t] \in {"script_release", "idle"}) =>
              loc[t].built = loc[t].arg
        /\ (loc[t].op = "clear_script" /\ pc[t] = "script_release") => script_lines = <<>>

\* A get_script has joined two lines that two different threads appended,
\* while another thread waits for the lock.
C13_Witness ==
    \E t \in Threads, u \in Threads :
        /\ t # u
        /\ loc[t].op = "get_script" /\ pc[t] = "script_release"
        /\ Len(loc[t].built) = 2
        /\ loc[t].ret = 1 /\ loc[u].ret = 1
        /\ pc[u] = "script_acquire"

\* C14: take_screenshot never raises: when the library cannot be created
\* (not installed, or its start fails), when the save raises or when the
\* file cannot be read back it returns None; it returns the file's bytes in
\* base64 exactly when the save and the read-back both succeeded.
C14_TakeScreenshotNeverRaises ==
    last.op = "take_screenshot" =>
        LET c == last.outcomes[1]
            o == last.outcomes[2]
            rd == last.outcomes[3]
            saved == (last.pre.lib # NoLib \/ c = "ok") /\ ~o.raised
        IN  /\ ~last.raised
            /\ last.exc = NoExc
            /\ last.value = (IF saved /\ rd THEN b64encode(PngBytes) ELSE None)
            /\ last.value # None =>
                  /\ Len(last.calls) = 1
                  /\ last.calls[1].method = "save_screenshot"
                  /\ last.calls[1].args =
                        <<output_dir \o "/" \o last.args[1] \o "_" \o Timestamp \o ".png">>

\* A failure that is no SAPError: the start of the library
\* failed with an OSError, and None came back.
C14_Witness ==
    /\ last.op = "take_screenshot"
    /\ last.pre.lib = NoLib
    /\ last.outcomes[1] = "OSError"
    /\ last.value = None
    /\ ~last.raised

\* The SAPError execute raises when the library is there and the command's
\* operation raised o.message.
CommandError(keyword, o) == SAPError(o.message, extract_hint(o.message), keyword)

\* A screenshot failed: the save raised or
\* the file could not be read back.
ShotFailed(sh) == sh[1].raised \/ ~sh[2]

\* C15: when the command of sap_push_button fails, the caller is given the
\* error of the command, with its message, its hint and its command name,
\* whatever the screenshots taken for the failure did, also when they
\* failed; when the command succeeds the call succeeds and no screenshot is
\* taken, so no screenshot failure makes it fail.  The tools that only run
\* a command report the error of the command after the screenshot of _run.
C15_ScreenshotFailureKeepsTheCommandError ==
    /\ (last.op \in SimpleTools /\ last.shots # <<>>) =>
          /\ ~last.raised
          /\ last.value = err_text(last.handled, None)
          /\ \/ \E o \in ToolOutcomes :
                   o.raised /\ last.handled = CommandError(simple_keyword(last.op), o)
             \/ last.pre.lib = NoLib /\ last.handled = get_lib(NoLib, 1, "ImportError").exc
    /\ (last.op = "sap_push_button" /\ is_connected(last.pre.state)
     /\ (last.pre.lib # NoLib \/ last.outcomes[1] = "ok")) =>
        LET o == last.outcomes[2]
            failed == ShotFailed(last.outcomes[3]) /\ ShotFailed(last.outcomes[4])
        IN  /\ ~last.raised
            /\ o.raised =>
                  /\ last.handled = CommandError("Push Button", o)
                  /\ last.value = err_text(CommandError("Push Button", o), last.attached)
                  /\ (config.screenshot_on_error /\ failed) =>
                        /\ last.shots = <<None, None>>
                        /\ last.attached = None
                        /\ last.value = "ERROR: " \o o.message \o "\nKeyword: Push Button"
                                        \o "\nHint: " \o extract_hint(o.message)
            /\ ~o.raised =>
                  /\ last.handled = NoExc
                  /\ last.shots = <<>>
                  /\ last.value = "Button '" \o last.args[1] \o "' clicked."

\* The command failed, and so did both screenshots taken for the failure.
C15_Witness ==
    /\ last.op = "sap_push_button"
    /\ config.screenshot_on_error
    /\ last.outcomes[2].raised
    /\ last.outcomes[3][1].raised
    /\ ~last.outcomes[4][2]
    /\ last.shots = <<None, None>>
    /\ last.handled = CommandError("Push Button", last.outcomes[2])

(***************************************************************************)
(* The state of the session set directly, between tool calls               *)
(***************************************************************************)
NextState ==
    \/ SetState
    \/ SapConnectToServer
    \/ SapClose
    \/ SapFillTextField
    \/ SapClearScript
    \/ Respond

SpecState == Init /\ [][NextState]_vars

\* C16: set_state succeeds from every state to every state and leaves the
\* session in the state it was given; setting the same state again changes
\* nothing; the server description, the script and the library handle are
\* what they were.
C16_SetStateSetsAnyState ==
    /\ last.op = "set_state" =>
          /\ ~last.raised
          /\ last.value = None
          /\ state = last.args[1]
          /\ server_description = last.pre.server_description
          /\ script_lines = last.pre.script_lines
          /\ lib = last.pre.lib
    /\ \A st \in SessionState :
          /\ set_state(Session, st).state = st
          /\ set_state(set_state(Session, st), st) = set_state(Session, st)

\* The state went back from LOGGED_IN to DISCONNECTED while a server
\* description and a script line were kept.
C16_Witness ==
    /\ last.op = "set_state"
    /\ last.pre.state = "LOGGED_IN"
    /\ state = "DISCONNECTED"
    /\ server_description # None
    /\ script_lines # <<>>

\* The call reported success: nothing was raised and no error was reported.
Succeeded == ~last.raised /\ last.handled = NoExc

\* C17: the server description changes only by a sap_connect_to_server
\* whose command succeeded, which sets it to the description given, and by
\* a sap_close whose command succeeded, which sets it to None; every other
\* tool call, and a connect or a close that failed, leaves it as it was.
C17_OnlyConnectAndCloseSetTheServer ==
    last.op # "" =>
        IF last.op = "sap_connect_to_server" /\ Succeeded
        THEN server_description = last.args[1]
             /\ last.calls = <<[method |-> "connect_to_server", args |-> last.args]>>
        ELSE IF last.op = "sap_close" /\ Succeeded
        THEN server_description = None
             /\ last.calls = <<[method |-> "close_sap", args |-> <<>>]>>
        ELSE server_description = last.pre.server_description

\* A close failed while connected to a server, and the description is kept.
C17_Witness ==
    /\ server_description \in Servers
    /\ last.op = "sap_close"
    /\ last.handled # NoExc

\* What a read gives the snapshot: the value read, or None when it failed.
ReadOrNone(o) == IF o.raised THEN None ELSE o.value

\* The library operation named method is among calls.
Called(method, calls) == \E i \in 1..Len(calls) : calls[i].method = method

\* C18: outside LOGGED_IN get_snapshot fails with the SAPError of
\* require_logged_in and no library operation is invoked; in LOGGED_IN it
\* always returns the snapshot, which carries the state, and as window
\* title and status bar the value read or null when that read failed; with
\* a library handle both reads are made whatever the other did.
C18_SnapshotNeedsLoginAndToleratesFailedReads ==
    last.op = "get_snapshot" =>
        IF last.pre.state # "LOGGED_IN"
        THEN /\ last.raised
             /\ last.exc = require_logged_in(last.pre.state)
             /\ last.exc.type = "SAPError"
             /\ last.exc.message = "Not logged in to SAP"
             /\ last.calls = <<>>
             /\ lib = last.pre.lib
        ELSE /\ ~last.raised
             /\ last.value =
                   [window_title |-> IF Called("get_window_title", last.calls)
                                     THEN ReadOrNone(last.outcomes[2]) ELSE None,
                    fields |-> <<>>, buttons |-> <<>>, tabs |-> <<>>,
                    status_bar |-> IF Called("read_status_bar", last.calls)
                                   THEN ReadOrNone(last.outcomes[3]) ELSE None,
                    state |-> "LOGGED_IN"]
             /\ lib # NoLib =>
                   last.calls = <<[method |-> "get_window_title", args |-> <<>>],
                                  [method |-> "read_status_bar", args |-> <<>>]>>
             /\ state = "LOGGED_IN"

\* The value the password fields are given.
PasswordValue == "s3cret"

\* A field for a password: its label names a password, in any spelling and
\* with whatever words around it.
PasswordLabelled(label) ==
    \E word \in {"password", "passwort", "kennwort"} : contains(word, lower(label))

\* C19: with recording on, a sap_fill_text_field that succeeded on the label
\* Password (or on another label of a password field) appends the line of
\* the command with *** in place of the value, while another label's line
\* holds its value; and whatever tool calls were made, no line of the script
\* contains the value given to a password field.
C19_PasswordIsRedactedInTheScript ==
    /\ (last.op = "sap_fill_text_field" /\ Succeeded /\ config.cap_codegen) =>
          script_lines =
              Append(last.pre.script_lines,
                     "    Fill Text Field    " \o last.args[1] \o "    "
                     \o (IF PasswordLabelled(last.args[1]) THEN "***" ELSE last.args[2]))
    /\ \A i \in 1..Len(script_lines) : ~contains(PasswordValue, script_lines[i])

(***************************************************************************)
(* session.py: the log records of execute                                  *)
(***************************************************************************)
\* The levels of the logging module, and the number of each.
LogLevels == {"DEBUG", "INFO", "WARNING"}
level_no(level) ==
    CASE level = "DEBUG" -> 10
      [] level = "INFO" -> 20
      [] level = "WARNING" -> 30

\* "%-35s" % s: s, then spaces up to the width.
RECURSIVE ljust(_, _)
ljust(s, width) == IF Len(s) >= width THEN s ELSE ljust(s \o " ", width)

\* The characters of repr(s) between the quotes: the backslash is doubled,
\* the quote and the control characters are escaped.
RECURSIVE repr_chars(_, _)
repr_chars(s, quote) ==
    IF Len(s) = 0 THEN ""
    ELSE LET c == CharAt(s, 1) IN
         (CASE c = "\\" -> "\\\\"
            [] c = quote -> "\\" \o quote
            [] c = "\n" -> "\\n"
            [] c = "\r" -> "\\r"
            [] c = "\t" -> "\\t"
            [] c = "\f" -> "\\x0c"
            [] OTHER -> c) \o repr_chars(Tail(s), quote)

\* repr(a) of an argument: None, or a str between apostrophes, or between
\* double quotes when it holds an apostrophe and no double quote.
repr_str(a) ==
    LET quote == IF contains("'", a) /\ ~contains("\"", a) THEN "\"" ELSE "'"
    IN  IF a = None THEN "None" ELSE quote \o repr_chars(a, quote) \o quote

\* "%s" % (args,) for a tuple of strings: the repr of the tuple.
repr_tuple(args) ==
    IF Len(args) = 0 THEN "()"
    ELSE IF Len(args) = 1 THEN "(" \o repr_str(args[1]) \o ",)"
    ELSE "(" \o join(", ", [i \in 1..Len(args) |-> repr_str(args[i])]) \o ")"

\* str(result)[:120]
str_result(value) ==
    LET text == IF value = None THEN "None" ELSE value
    IN  IF Len(text) <= 120 THEN text ELSE SubSeq(text, 1, 120)

\* The records execute hands to its logger once the method is found and
\* called with outcome o, in order: EXEC, then DONE or FAIL.
execute_records(keyword, args, o) ==
    <<[level |-> "DEBUG",
       message |-> "EXEC  " \o ljust(keyword, 35) \o "  args=" \o repr_tuple(args)],
      IF o.raised
      THEN [level |-> "WARNING",
            message |-> "FAIL  " \o ljust(keyword, 35) \o "  error=" \o o.message]
      ELSE [level |-> "DEBUG",
            message |-> "DONE  " \o ljust(keyword, 35) \o "  result=" \o str_result(o.value)]>>

\* The records that are written when the logger's level is threshold.
execute_log(threshold, keyword, args, o) ==
    LET written(rec) == level_no(rec.level) >= level_no(threshold)
    IN  SelectSeq(execute_records(keyword, args, o), written)

\* C20: for a sap_fill_text_field on a password label whose command reached
\* the library, at no level of the logger does a record written by execute
\* contain the password value.
C20_NoLogRecordHoldsThePassword ==
    (last.op = "sap_fill_text_field" /\ last.args[2] = PasswordValue
     /\ Len(last.calls) >= 1) =>
        \A level \in LogLevels :
            LET records == execute_log(level, "Fill Text Field", last.args, last.outcomes[2])
            IN  \A i \in 1..Len(records) : ~contains(PasswordValue, records[i].message)

\* The error of the guard the last call's tool starts with.
GuardError ==
    IF last.op \in ConnectedTools THEN require_connected(last.pre.state)
    ELSE require_logged_in(last.pre.state)

\* C21: a guarded tool called in a state that fails its guard returns the
\* text of _err for the guard's error, with its hint, and no exception
\* leaves the handler.
C21_GuardErrorIsReportedWithItsHint ==
    GuardFails =>
        /\ ~last.raised
        /\ last.handled = GuardError
        /\ last.value = "ERROR: " \o GuardError.message \o "\nHint: " \o GuardError.hint

\* Steps of a login after sap_connect_to_server: the connect, the password
\* entered and the button pushed, each of them successful.
ConnectSucceeded == last.op = "sap_connect_to_server" /\ Succeeded /\ state = "CONNECTED"
PasswordFilled ==
    last.op = "sap_fill_text_field" /\ last.args[1] = "Password" /\ Succeeded
PushSucceeded == last.op = "sap_push_button" /\ Succeeded

\* The calls of a login through the tools: the logon is opened, the server
\* connected, fields filled and buttons pushed.
NextLogin ==
    \/ SapOpen
    \/ SapConnectToServer
    \/ SapFillTextField
    \/ SapPushButton
    \/ Respond

\* A handler that was called returns and its result is sent: no call stays
\* unanswered for ever.
SpecLogin == Init /\ [][NextLogin]_vars /\ WF_vars(Respond)

\* C22: when a sap_connect_to_server has succeeded and the login is
\* completed with sap_fill_text_field and sap_push_button calls that succeed
\* (however often they are repeated), the session eventually is LOGGED_IN.
C22_LoginIsDetected ==
    (<>ConnectSucceeded /\ []<>PasswordFilled /\ []<>PushSucceeded)
        => <>(state = "LOGGED_IN")

\* The place of a state in the lifecycle order.
LifecycleRank(st) ==
    CASE st = "DISCONNECTED" -> 0
      [] st = "SAP_OPEN" -> 1
      [] st = "CONNECTED" -> 2
      [] st = "LOGGED_IN" -> 3

\* C23: a tool call keeps the state, advances it in the order DISCONNECTED,
\* SAP_OPEN, CONNECTED, LOGGED_IN, or sets it to DISCONNECTED; it never
\* takes the session back from LOGGED_IN to CONNECTED or SAP_OPEN, nor from
\* CONNECTED to SAP_OPEN.
C23_StateNeverRegresses ==
    last.op # "" =>
        \/ state = "DISCONNECTED"
        \/ LifecycleRank(state) >= LifecycleRank(last.pre.state)

\* C24: sap_connect_to_server called while the state is DISCONNECTED invokes
\* no library operation and leaves the state as it is; no tool call takes
\* the state from DISCONNECTED to CONNECTED.
C24_ConnectNeedsAnOpenedLogon ==
    (last.op # "" /\ last.pre.state = "DISCONNECTED") =>
        /\ state # "CONNECTED"
        /\ last.op = "sap_connect_to_server" => last.calls = <<>>

\* The tools whose command changes something in SAP.
MutatingTools ==
    {"sap_open", "sap_connect_to_server", "sap_connect_to_running", "sap_close",
     "sap_fill_text_field", "sap_push_button"} \cup SimpleTools \cup TitleTools

\* C25: with recording on, a tool call whose side-effecting command was
\* executed with success adds exactly one line to the script, after the
\* lines that were there.
C25_EverySuccessfulCommandIsRecorded ==
    (config.cap_codegen /\ last.op \in MutatingTools /\ Succeeded) =>
        /\ Len(script_lines) = Len(last.pre.script_lines) + 1
        /\ SubSeq(script_lines, 1, Len(last.pre.script_lines)) = last.pre.script_lines

\* How far the line at place i of a script text is indented.
IndentOf(text, i) == leading_spaces(split(text, "\n")[i])

\* C26: in the text get_script returns for a script that is not empty, the
\* header lines start in one column and every recorded line starts in the
\* same column to the right of it, however many lines were recorded.
C26_RecordedLinesShareOneColumn ==
    (last.op = "get_script" /\ script_lines # <<>>) =>
        /\ \A i \in {2, 4, 5} : IndentOf(last.value, i) = IndentOf(last.value, 1)
        /\ \A i \in 1..Len(script_lines) :
              IndentOf(last.value, i + 5) = IndentOf(last.value, 1) + 4

\* The tools that only read.
ReadOnlyTools ==
    ReadTools \cup {"sap_get_session_info", "sap_get_window_title", "sap_take_screenshot",
                    "sap_get_snapshot", "sap_get_generated_script"}

\* C27: a read-only tool leaves the state, the server description and the
\* script as they were, whether it succeeds or fails; sap_get_session_info
\* returns the session's state in every state without an error, and reads
\* the window title from the library exactly when the state is CONNECTED or
\* LOGGED_IN.
C27_ReadOnlyToolsChangeNothing ==
    /\ last.op \in ReadOnlyTools => SessionUntouched
    /\ last.op = "sap_get_session_info" =>
          /\ Succeeded
          /\ contains("\"state\": \"" \o last.pre.state \o "\"", last.value)
          /\ IF is_connected(last.pre.state)
             THEN last.calls = <<[method |-> "get_window_title", args |-> <<>>]>>
             ELSE last.calls = <<>> /\ lib = last.pre.lib

\* A read failed in a session that is logged in, has a server description
\* and has a recorded line.
C27_Witness ==
    /\ last.op = "sap_read_text_field"
    /\ last.handled # NoExc
    /\ state = "LOGGED_IN"
    /\ server_description # None
    /\ script_lines # <<>>

\* The command of the last tool call failed: the handler reported the error
\* of the command (not that of the title read after it), or an exception
\* that is no guard's error left the handler.
CommandFailed ==
    \/ last.handled # NoExc /\ last.handled.keyword # "Get Window Title"
    \/ last.raised /\ ~GuardFails

\* C28: when the command of sap_open, sap_connect_to_server,
\* sap_connect_to_running, sap_close or of a tool that runs its command
\* through _run fails (the library is not there, or its operation raises),
\* the state, the server description and the script after the call are what
\* they were before it.
C28_FailedCommandChangesNothing ==
    (last.op \in MutatingTools /\ CommandFailed) => SessionUntouched

\* A command run through _run failed in a session that had advanced and had
\* a recorded line.
C28_Witness ==
    /\ last.op = "sap_send_key"
    /\ last.handled.keyword = "Send SAP Keys"
    /\ config.cap_codegen
    /\ state = "LOGGED_IN"
    /\ script_lines # <<>>

(***************************************************************************)
(* Concurrent tool calls: the handlers, statement by statement.  A handler *)
(* calls session.execute and session.record, whose statements are the      *)
(* actions of the sections above.                                          *)
(***************************************************************************)
\* The tools the threads serve.
ServeTools ==
    {"sap_execute_transaction", "sap_connect_to_server", "sap_connect_to_running",
     "sap_close", "sap_get_session_info"}

\* How many lines and calls in progress there are together before no
\* further call is served.
MaxServed == 2

\* The command each of them executes, and the state it sets on success.
serve_keyword(tool) ==
    CASE tool = "sap_execute_transaction" -> "Execute Transaction"
      [] tool = "sap_connect_to_server" -> "Connect To Server"
      [] tool = "sap_connect_to_running" -> "Connect To Running SAP"
      [] tool = "sap_close" -> "Close SAP"
      [] OTHER -> "Get Window Title"

serve_state(tool) ==
    CASE tool = "sap_connect_to_server" -> "CONNECTED"
      [] tool = "sap_connect_to_running" -> "LOGGED_IN"
      [] OTHER -> "DISCONNECTED"

\* The handler of thread t is between two of its statements.
Serving(t) == loc[t].frame.stage \notin {"", "done"}

\* The locals of thread t when its handler has returned (raised: by an
\* exception or with an error text): what the handler read and called is
\* gone.
Left(t, raised) ==
    [NoLocals[t] EXCEPT
        !.op = loc[t].frame.tool, !.raised = raised,
        !.frame = [NoFrame EXCEPT !.tool = loc[t].frame.tool, !.stage = "done",
                                  !.done = loc[t].frame.done,
                                  !.before = loc[t].frame.before]]

\* The handler of thread t goes on with the statement next, or returns.
Goes(t, next) ==
    /\ loc' = [loc EXCEPT ![t] = IF next = "done" THEN Left(t, loc[t].raised)
                                 ELSE [@ EXCEPT !.frame.stage = next]]
    /\ pc' = [pc EXCEPT ![t] = IF next = "done" THEN "idle" ELSE "serve"]

\* After the command and the state it sets: the line is recorded if codegen
\* is on.
record_or(next) == IF config.cap_codegen THEN "record" ELSE next

\* Thread t starts to serve a tool call; arg is the argument of the tool.
ServeCall(t) ==
    \E tool \in ServeTools :
    \E a \in (CASE tool = "sap_connect_to_server" -> Servers
                [] tool = "sap_execute_transaction" -> {"/nME21N"}
                [] OTHER -> {None}) :
        /\ pc[t] = "idle"
        /\ Len(script_lines) + Cardinality({u \in Threads : Serving(u)}) < MaxServed
        /\ pc' = [pc EXCEPT ![t] = "serve"]
        /\ loc' = [u \in Threads |->
                     IF u = t
                     THEN [loc[t] EXCEPT
                             !.op = tool, !.raised = FALSE, !.exc = NoExc,
                             !.frame = [NoFrame EXCEPT
                                          !.tool = tool, !.arg = a,
                                          !.stage = CASE tool = "sap_execute_transaction"
                                                           -> "guard"
                                                      [] tool = "sap_get_session_info"
                                                           -> "info_state"
                                                      [] OTHER -> "run"]]
                     ELSE [loc[u] EXCEPT !.frame.before = @ \ {t}]]
        /\ ManagerUnchanged /\ UNCHANGED cls_lock /\ ThreadFrame

\* session.require_logged_in() before the try block.
ServeGuard(t) ==
    /\ pc[t] = "serve" /\ loc[t].frame.stage = "guard"
    /\ IF require_logged_in(state) # NoExc
       THEN /\ loc' = [loc EXCEPT ![t] = Left(t, TRUE)]
            /\ pc' = [pc EXCEPT ![t] = "idle"]
       ELSE Goes(t, "run")
    /\ ManagerUnchanged /\ UNCHANGED cls_lock /\ ThreadFrame

\* The handler calls session.execute: the command of the tool (run), Get
\* Window Title (title) or, in take_screenshot, Save Screenshot (shot).
\* before keeps the threads whose command had returned by now.
ServeExecute(t) ==
    LET stage == loc[t].frame.stage IN
    /\ pc[t] = "serve" /\ stage \in {"run", "title", "shot"}
    /\ pc' = [pc EXCEPT ![t] = "get_lib"]
    /\ loc' = [loc EXCEPT
                 ![t].arg = CASE stage = "run" -> serve_keyword(loc[t].frame.tool)
                              [] stage = "title" -> "Get Window Title"
                              [] OTHER -> "Save Screenshot",
                 ![t].lib = NoLib, ![t].raised = FALSE, ![t].exc = NoExc,
                 ![t].frame.stage = IF stage = "run" THEN "ran" ELSE "return",
                 ![t].frame.before =
                     IF stage = "run" THEN {u \in Threads \ {t} : loc[u].frame.done} ELSE @]
    /\ ManagerUnchanged /\ UNCHANGED cls_lock /\ ThreadFrame

\* The command has returned or raised.  In _run a SAPError is caught and a
\* screenshot taken if screenshot_on_error is on; the other handlers return
\* the error; after a success the handler goes on.
ServeExecuted(t) ==
    LET tool == loc[t].frame.tool IN
    /\ pc[t] = "serve" /\ loc[t].frame.stage = "ran"
    /\ IF loc[t].raised
       THEN IF /\ tool = "sap_execute_transaction"
               /\ loc[t].exc.type = "SAPError"
               /\ config.screenshot_on_error
            THEN /\ loc' = [loc EXCEPT ![t].frame.exc = loc[t].exc,
                                       ![t].frame.stage = "shot"]
                 /\ UNCHANGED pc
            ELSE Goes(t, "done")
       ELSE /\ loc' = [loc EXCEPT ![t].frame.done = TRUE,
                                  ![t].frame.stage = IF tool = "sap_execute_transaction"
                                                     THEN record_or("title")
                                                     ELSE "set_state"]
            /\ UNCHANGED pc
    /\ ManagerUnchanged /\ UNCHANGED cls_lock /\ ThreadFrame

\* session.set_state(...) after the command returned.
ServeSetState(t) ==
    /\ pc[t] = "serve" /\ loc[t].frame.stage = "set_state"
    /\ state' = set_state(Session, serve_state(loc[t].frame.tool)).state
    /\ Goes(t, IF loc[t].frame.tool = "sap_connect_to_running" THEN record_or("return")
               ELSE "set_server")
    /\ UNCHANGED <<singleton, n_managers, output_dir, lib, n_libs, server_description,
                   script_lines, cls_lock>>
    /\ ThreadFrame

\* session._server_description = server_description, or None in sap_close.
ServeSetServer(t) ==
    /\ pc[t] = "serve" /\ loc[t].frame.stage = "set_server"
    /\ server_description' = IF loc[t].frame.tool = "sap_close" THEN None
                             ELSE loc[t].frame.arg
    /\ Goes(t, record_or("return"))
    /\ UNCHANGED <<singleton, n_managers, output_dir, lib, n_libs, state, script_lines,
                   cls_lock>>
    /\ ThreadFrame

\* The handler, or _run, calls session.record(keyword, *args): the line is
\* built, then the lock is taken.
ServeRecord(t) ==
    LET f == loc[t].frame IN
    /\ pc[t] = "serve" /\ f.stage = "record"
    /\ pc' = [pc EXCEPT ![t] = "script_acquire"]
    /\ loc' = [loc EXCEPT
                 ![t].op = "record",
                 ![t].arg = script_line(serve_keyword(f.tool),
                                        IF f.arg = None THEN <<>> ELSE <<f.arg>>),
                 ![t].frame.stage = IF f.tool = "sap_execute_transaction" THEN "title"
                                    ELSE "return"]
    /\ ManagerUnchanged /\ UNCHANGED cls_lock /\ ThreadFrame

\* sap_get_session_info builds its answer: session.state.name,
\* session._server_description, session.is_connected(),
\* session.is_logged_in(), and the test if session.is_connected().
InfoRead(t) ==
    LET stage == loc[t].frame.stage IN
    /\ pc[t] = "serve"
    /\ stage \in {"info_state", "info_server", "info_connected", "info_logged_in",
                  "info_test"}
    /\ loc' = [loc EXCEPT
                 ![t].frame.st = IF stage = "info_state" THEN state ELSE @,
                 ![t].frame.sv = IF stage = "info_server" THEN server_description ELSE @,
                 ![t].frame.stage =
                     CASE stage = "info_state" -> "info_server"
                       [] stage = "info_server" -> "info_connected"
                       [] stage = "info_connected" -> "info_logged_in"
                       [] stage = "info_logged_in" -> "info_test"
                       [] OTHER -> IF is_connected(state) THEN "title" ELSE "return"]
    /\ UNCHANGED pc
    /\ ManagerUnchanged /\ UNCHANGED cls_lock /\ ThreadFrame

\* The handler returns its text, or its exception leaves it.  After the
\* screenshot of _run, whatever take_screenshot met, the SAPError _run caught
\* is raised again and the handler returns its error text;
\* sap_get_session_info catches the SAPError of Get Window Title and returns
\* its answer; otherwise the outcome is the one of the last command.
ServeReturn(t) ==
    LET f == loc[t].frame
        raised == IF f.exc # NoExc THEN TRUE
                  ELSE IF f.tool = "sap_get_session_info"
                  THEN loc[t].raised /\ loc[t].exc.type # "SAPError"
                  ELSE loc[t].raised
    IN  /\ pc[t] = "serve" /\ f.stage = "return"
        /\ loc' = [loc EXCEPT ![t] = Left(t, raised)]
        /\ pc' = [pc EXCEPT ![t] = "idle"]
        /\ ManagerUnchanged /\ UNCHANGED cls_lock /\ ThreadFrame

NextServe ==
    \E t \in Threads :
        \/ ServeCall(t)
        \/ ServeGuard(t)
        \/ ServeExecute(t)
        \/ ServeExecuted(t)
        \/ ServeSetState(t)
        \/ ServeSetServer(t)
        \/ ServeRecord(t)
        \/ InfoRead(t)
        \/ ServeReturn(t)
        \/ GetLibCheck(t)
        \/ GetLibConstruct(t)
        \/ GetLibStore(t)
        \/ GetLibReturn(t)
        \/ ExecuteGetattr(t)
        \/ ExecuteInvoke(t)
        \/ ExecuteFinish(t)
        \/ ScriptAcquire(t)
        \/ RecordAppend(t)
        \/ ScriptRelease(t)

\* main() has reached mcp.run(); the threads are tool calls being served.
SpecServe == Init /\ [][NextServe]_vars

\* C29: the command of a guarded tool reaches the library only while the
\* session is in a state its guard accepts: whenever the method of Execute
\* Transaction is invoked for sap_execute_transaction, the state is
\* LOGGED_IN.
C29_CommandIsDispatchedInAnAllowedState ==
    [][\A t \in Threads :
          (/\ pc[t] = "call" /\ pc'[t] = "in_call"
           /\ loc[t].frame.tool = "sap_execute_transaction"
           /\ loc[t].arg = "Execute Transaction") => state = "LOGGED_IN"]_vars

\* sap_get_session_info of thread t has read the state and the server
\* description it reports.
InfoReported(t) ==
    /\ loc[t].frame.tool = "sap_get_session_info"
    /\ loc[t].frame.stage \notin {"info_state", "info_server", "done"}

\* C30: the state and the server description sap_get_session_info reports
\* fit together: DISCONNECTED is never reported with a server description,
\* and CONNECTED set by sap_connect_to_server (no server is configured for
\* _auto_connect) is never reported without the description that connect
\* sets.
C30_SessionInfoIsConsistent ==
    \A t \in Threads :
        InfoReported(t) =>
            /\ loc[t].frame.st = "DISCONNECTED" => loc[t].frame.sv = None
            /\ (loc[t].frame.st = "CONNECTED" /\ config.sap_server \in {None, ""}) =>
                  loc[t].frame.sv # None

\* The line of the command of thread t is in the script.
Appended(t) ==
    /\ config.cap_codegen
    /\ loc[t].frame.tool # "sap_get_session_info"
    /\ loc[t].frame.done
    /\ loc[t].frame.stage \in {"title", "return", "done"}
    /\ pc[t] \notin {"script_acquire", "record"}

\* C31: the lines of two commands stand in the script in the order in which
\* the commands returned from the library: when the command of t had
\* returned before the command of u was dispatched, the line of u is not in
\* the script before the line of t.
C31_LinesFollowTheOrderOfCompletion ==
    \A t, u \in Threads :
        (t \in loc[u].frame.before /\ Appended(u)) => Appended(t)

\* The calls of the library's save_screenshot among calls.
SaveScreenshots(calls) == SelectSeq(calls, LAMBDA call : call.method = "save_screenshot")

\* The last tool call reported an error of a command (sap_take_screenshot,
\* whose command is the screenshot itself, is left aside).
ErrorReported == last.handled # NoExc /\ last.op # "sap_take_screenshot"

\* C32: for a tool call that reports an error, Save Screenshot is invoked at
\* most once when screenshot_on_error is on and never when it is off, and a
\* screenshot captured for the failure is the one attached to the error
\* response.
C32_OneScreenshotPerFailure ==
    ErrorReported =>
        /\ config.screenshot_on_error => Len(SaveScreenshots(last.calls)) <= 1
        /\ ~config.screenshot_on_error => Len(SaveScreenshots(last.calls)) = 0
        /\ \A i \in DOMAIN last.shots :
              last.shots[i] # None => last.attached = last.shots[i]

\* C33: with codegen on, a tool call that reports an error has left the
\* script as it was, and a tool call whose command was executed and recorded
\* reports success: its text is no error text and no exception leaves it.
C33_NoErrorForARecordedCommand ==
    (config.cap_codegen /\ last.op # "") =>
        /\ last.handled # NoExc => script_lines = last.pre.script_lines
        /\ (Len(script_lines) > Len(last.pre.script_lines)) =>
              /\ ~last.raised
              /\ last.handled = NoExc
              /\ SubSeq(last.value, 1, 6) # "ERROR:"

====
